---- MODULE Spec2Model ----
(***************************************************************************)
(* QSPI NOR-flash block driver (N25Q128A behind the STM32 QUADSPI          *)
(* controller): the block-device entry points, the page-program and erase  *)
(* engines, the interrupt-driven primitives and the device mutex.          *)
(*                                                                         *)
(* Threads run the driver's functions one hardware call (or one blocking   *)
(* kernel call) per step.  The HAL's answer to each call is an input: any  *)
(* HAL_StatusTypeDef the HAL may return.  The flash part and the           *)
(* controller's interrupt are the environment.                             *)
(***************************************************************************)
EXTENDS Integers, Sequences, FiniteSets, TLC

(***************************************************************************)
(* Part constants (platform/n25q128a.h).  The geometry is scaled down, and *)
(* keeps what the driver relies on: each size is a power of two and        *)
(* divides the next (page | subsector | sector | flash).  The part has     *)
(* 256 B pages, 4 KiB subsectors, 64 KiB sectors and 16 MiB in all.        *)
(***************************************************************************)
N25Q128A_PAGE_SIZE == 2
N25Q128A_SUBSECTOR_SIZE == 4
N25Q128A_SECTOR_SIZE == 8
N25Q128A_FLASH_SIZE == 16
\* Dummy cycles of a quad read (the read latency the init path configures).
N25Q128A_DUMMY_CYCLES_READ_QUAD == 10

\* Kernel status codes (err.h).
NO_ERROR == 0
ERR_GENERIC == -1
ERR_INVALID_ARGS == -8
ERR_TIMED_OUT == -13
ERR_NOT_IMPLEMENTED == -27
ERR_BUSY == -33

\* HAL_StatusTypeDef.
HAL_OK == 0
HAL_ERROR == 1
HAL_BUSY == 2
HAL_TIMEOUT == 3

\* What a HAL call may return to the driver.
HalOutcomes == {HAL_OK, HAL_ERROR, HAL_BUSY, HAL_TIMEOUT}

\* Page contents: 0 is the erased pattern (0xff bytes), -1 stands for
\* contents that are none of the patterns written (bits of two patterns
\* programmed over each other, or data read from a busy part).
Erased == 0
Garbled == -1

(***************************************************************************)
(* Bounds of the model.                                                    *)
(***************************************************************************)
\* Calls of block-device entry points made in one behaviour of Spec.
MaxCalls == 2
\* Largest block count a write_block request of Spec carries.
MaxCount == 2
\* Page contents are 1..MaxData; 0 is the erased pattern (0xff bytes).
MaxData == 2
\* How far past the end of the device the requests of SpecErase may reach.
MaxOver == 1
\* The statuses given to hal_error_to_status are -MaxStatus .. MaxStatus.
MaxStatus == 40
\* The request codes and arguments given to ioctl are 0 .. MaxRequest.
MaxRequest == 2

Threads == {"t1", "t2"}
BootThread == "t1"

NumPages == N25Q128A_FLASH_SIZE \div N25Q128A_PAGE_SIZE
Pages == 0 .. (NumPages - 1)
Data == 1 .. MaxData

VARIABLES
    pc,         \* pc[t]: where thread t is in the driver ("idle": outside it)
    loc,        \* loc[t]: the arguments and locals of t's call
    ret,        \* ret[t]: what t's last call returned
    holders,    \* the threads holding spiflash_mutex
    cmd_event,  \* the three auto-unsignal events: TRUE = signaled
    tx_event,
    rx_event,
    irq,        \* the completion interrupt the controller has pending
    wip,        \* the flash is busy with a program or erase (write in progress)
    mem,        \* mem[p]: contents of page p
    polling,    \* the controller is auto-polling the status register for the
                \* end of a program or erase (started in interrupt mode)
    trace,      \* the hardware transactions issued since the driver was last
                \* idle (no thread inside it), in order
    nops,       \* calls made so far
    registered, \* the block device is registered with the block-I/O layer
    bdev        \* qspi_flash_device with its geometry, as the driver set it up

thr == <<pc, loc, ret>>
evs == <<cmd_event, tx_event, rx_event>>
hw  == <<irq, wip, mem, polling>>
env == <<nops, registered, bdev>>
vars == <<pc, loc, ret, holders, cmd_event, tx_event, rx_event, irq, wip, mem,
          polling, trace, nops, registered, bdev>>

\* What the HAL answers to a call now.  While the controller is auto-polling
\* the handle is not ready, and every call is turned away with HAL_BUSY.
HalAnswers == IF polling THEN {HAL_BUSY} ELSE HalOutcomes

(***************************************************************************)
(* Pure helpers.                                                           *)
(***************************************************************************)
Min(a, b) == IF a < b THEN a ELSE b

IS_ALIGNED(a, b) == a % b = 0

\* lib/bio: clamp a byte range to the device; 0 when it lies outside.
bio_trim_range(offset, len) ==
    IF offset < 0 \/ offset >= N25Q128A_FLASH_SIZE \/ len = 0 THEN 0
    ELSE Min(len, N25Q128A_FLASH_SIZE - offset)

\* lib/bio: clamp a block range to the device; 0 when it lies outside.
bio_trim_block_range(block, count) ==
    IF block >= NumPages \/ count = 0 THEN 0
    ELSE Min(count, NumPages - block)

\* Mutant: a status that is not known is taken for success.
hal_error_to_status_lenient(hal_status) ==
    CASE hal_status = HAL_ERROR   -> ERR_GENERIC
      [] hal_status = HAL_BUSY    -> ERR_BUSY
      [] hal_status = HAL_TIMEOUT -> ERR_TIMED_OUT
      [] OTHER                    -> NO_ERROR

hal_error_to_status(hal_status) ==
    CASE hal_status = HAL_OK      -> NO_ERROR
      [] hal_status = HAL_ERROR   -> ERR_GENERIC
      [] hal_status = HAL_BUSY    -> ERR_BUSY
      [] hal_status = HAL_TIMEOUT -> ERR_TIMED_OUT
      [] OTHER                    -> ERR_GENERIC

\* The locals of a call.  a0/n0 are the arguments as passed, buf the caller's
\* buffer (one pattern per page) and bp how far the code moved into it; offset, len,
\* block, count are the working copies the code changes; rc is retcode /
\* total_bytes_written / total_erased / result; sub is what the last callee
\* returned; st is the HAL status an interrupt-driven start returned; ok
\* records that every HAL call of this call returned HAL_OK so far.
NoLoc ==
    [kind |-> "none", id |-> 0, a0 |-> 0, n0 |-> 0,
     offset |-> 0, len |-> 0, block |-> 0, count |-> 0, buf |-> <<>>, bp |-> 0,
     rc |-> 0, addr |-> 0, instr |-> "none", num |-> 0, caller |-> "none",
     st |-> HAL_OK, sub |-> 0, ok |-> TRUE]

\* s_command.DataMode of the command descriptor each instruction is sent
\* with ("-": a transmit or receive, which has no descriptor).
DataMode(txn) ==
    CASE txn \in {"QUAD_INOUT_FAST_READ_CMD", "EXT_QUAD_IN_FAST_PROG_CMD"} -> "4_LINES"
      [] txn \in {"READ_STATUS_REG_CMD/WREN", "READ_STATUS_REG_CMD/WIP",
                  "READ_VOL_CFG_REG_CMD", "WRITE_VOL_CFG_REG_CMD"} -> "1_LINE"
      [] txn \in {"TRANSMIT", "RECEIVE"} -> "-"
      [] OTHER -> "NONE"

\* s_command.DummyCycles of the command descriptor.
DummyCycles(txn) ==
    IF txn = "QUAD_INOUT_FAST_READ_CMD" THEN N25Q128A_DUMMY_CYCLES_READ_QUAD ELSE 0

\* One issued hardware transaction: who issued it for which call, the
\* instruction, its address phase, its data phase and dummy cycles, its data
\* size, the status the HAL returned, and who held the mutex when it was
\* issued.
Txn(t, txn, amode, addr, n, st) ==
    [id |-> loc[t].id, kind |-> loc[t].kind, by |-> t, txn |-> txn,
     amode |-> amode, addr |-> addr, dmode |-> DataMode(txn),
     dummy |-> DummyCycles(txn), n |-> n, st |-> st, lock |-> holders]

Issue(t, txn, amode, addr, n, st) == Append(trace, Txn(t, txn, amode, addr, n, st))

Goto(t, p) == pc' = [pc EXCEPT ![t] = p]

\* What is left of a call's record once it returned: which call it was, the
\* caller's buffer, and whether all its HAL calls succeeded.  Its locals are
\* gone.
Returned(l) ==
    [NoLoc EXCEPT !.kind = l.kind, !.id = l.id, !.a0 = l.a0, !.n0 = l.n0,
                  !.buf = l.buf, !.ok = l.ok]

\* t's call returns v to its caller.
Return(t, v) ==
    /\ ret' = [ret EXCEPT ![t] = v]
    /\ loc' = [loc EXCEPT ![t] = Returned(loc[t])]
    /\ Goto(t, "idle")

\* A call of hal_error_to_status with the status in a0.
HalErrorToStatus(t) ==
    /\ pc[t] = "hs_entry"
    /\ Return(t, hal_error_to_status(loc[t].a0))
    /\ UNCHANGED <<holders, evs, hw, trace, env>>

(***************************************************************************)
(* Kernel primitives.                                                      *)
(***************************************************************************)
\* mutex_acquire: blocks until the mutex is free, then takes it.
mutex_acquire(t) == holders = {} /\ holders' = {t}

mutex_release(t) == holders' = holders \ {t}

(***************************************************************************)
(* The flash part and the controller.                                      *)
(***************************************************************************)
\* The pages an erase instruction at address a clears.
ErasedPages(instr, a) ==
    CASE instr = "BULK_ERASE_CMD" -> Pages
      [] instr = "SECTOR_ERASE_CMD" ->
            {p \in Pages : (p * N25Q128A_PAGE_SIZE) \div N25Q128A_SECTOR_SIZE
                             = a \div N25Q128A_SECTOR_SIZE}
      [] instr = "SUBSECTOR_ERASE_CMD" ->
            {p \in Pages : (p * N25Q128A_PAGE_SIZE) \div N25Q128A_SUBSECTOR_SIZE
                             = a \div N25Q128A_SUBSECTOR_SIZE}
      [] OTHER -> {}

\* Programming pattern d into a page that holds p: the part can only clear
\* bits, so the page holds d if it was erased (or held d already).
Program(p, d) == IF p = Erased \/ p = d THEN d ELSE Garbled

\* What a read of len bytes at offset delivers: each byte shows the pattern
\* of its page.
ReadData(offset, len) ==
    [i \in 1 .. len |-> mem[(offset + i - 1) \div N25Q128A_PAGE_SIZE]]

\* The status-match interrupt of an auto-poll started in interrupt mode:
\* the write-in-progress bit reads clear, HAL_QSPI_IRQHandler stops the
\* polling and makes the handle ready.  The driver defines no
\* HAL_QSPI_StatusMatchCallback, so nothing else happens.
StatusMatch ==
    /\ polling
    /\ ~wip
    /\ polling' = FALSE
    /\ UNCHANGED <<thr, holders, evs, irq, wip, mem, trace, env>>

\* The flash finishes the program or erase it was busy with.
FlashReady ==
    /\ wip
    /\ wip' = FALSE
    /\ UNCHANGED <<thr, holders, evs, irq, mem, polling, trace, env>>

\* The completion interrupt a HAL_QSPI_*_IT start leaves pending.  A start
\* that returned HAL_OK is followed by its completion interrupt i.  The HAL
\* is outside the driver: a start that reported a failure may have begun
\* nothing (no interrupt follows) or may still end in a completion, and the
\* driver's code after event_wait provides for a failed status either way.
Completion(st, i) == IF st = HAL_OK THEN {i} ELSE {irq, i}

\* HAL_QSPI_IRQHandler calls exactly one completion callback.
HAL_QSPI_CmdCpltCallback ==
    /\ irq = "cmd"
    /\ cmd_event' = TRUE
    /\ irq' = "none"
    /\ UNCHANGED <<thr, holders, tx_event, rx_event, wip, mem, polling, trace, env>>

HAL_QSPI_RxCpltCallback ==
    /\ irq = "rx"
    /\ rx_event' = TRUE
    /\ irq' = "none"
    /\ UNCHANGED <<thr, holders, cmd_event, tx_event, wip, mem, polling, trace, env>>

\* Mutant: the transmit callback signals the command event as well.
HAL_QSPI_TxCpltCallbackBoth ==
    /\ irq = "tx"
    /\ tx_event' = TRUE
    /\ cmd_event' = TRUE
    /\ irq' = "none"
    /\ UNCHANGED <<thr, holders, rx_event, wip, mem, polling, trace, env>>

HAL_QSPI_TxCpltCallback ==
    /\ irq = "tx"
    /\ tx_event' = TRUE
    /\ irq' = "none"
    /\ UNCHANGED <<thr, holders, cmd_event, rx_event, wip, mem, polling, trace, env>>

(***************************************************************************)
(* spiflash_bdev_read / spiflash_bdev_read_block                           *)
(***************************************************************************)
ReadBlockEntry(t) ==
    /\ pc[t] = "rb_entry"
    /\ LET count == bio_trim_block_range(loc[t].block, loc[t].count) IN
         IF count = 0
         THEN Return(t, 0)
         ELSE /\ loc' = [loc EXCEPT ![t].count = count,
                                    ![t].offset = loc[t].block * N25Q128A_PAGE_SIZE,
                                    ![t].len = count * N25Q128A_PAGE_SIZE]
              /\ Goto(t, "rd_entry")
              /\ UNCHANGED ret
    /\ UNCHANGED <<holders, evs, hw, trace, env>>

\* Mutant: the read goes for the mutex also when nothing is left of the range.
ReadEntryNoTrim(t) ==
    /\ pc[t] = "rd_entry"
    /\ LET len == bio_trim_range(loc[t].offset, loc[t].len) IN
         /\ loc' = [loc EXCEPT ![t].len = len, ![t].rc = len]
         /\ Goto(t, "rd_acquire")
         /\ UNCHANGED ret
    /\ UNCHANGED <<holders, evs, hw, trace, env>>

ReadEntry(t) ==
    /\ pc[t] = "rd_entry"
    /\ LET len == bio_trim_range(loc[t].offset, loc[t].len) IN
         IF len = 0
         THEN Return(t, 0)
         ELSE /\ loc' = [loc EXCEPT ![t].len = len, ![t].rc = len]
              /\ Goto(t, "rd_acquire")
              /\ UNCHANGED ret
    /\ UNCHANGED <<holders, evs, hw, trace, env>>

\* Mutant: the read goes on without taking the mutex.
ReadAcquireNoLock(t) ==
    /\ pc[t] = "rd_acquire"
    /\ Goto(t, "rd_cmd")
    /\ UNCHANGED <<loc, ret, holders, evs, hw, trace, env>>

ReadAcquire(t) ==
    /\ pc[t] = "rd_acquire"
    /\ mutex_acquire(t)
    /\ Goto(t, "rd_cmd")
    /\ UNCHANGED <<loc, ret, evs, hw, trace, env>>

\* Mutant: the read command asks for one page at most.
ReadCmdOnePage(t) ==
    /\ pc[t] = "rd_cmd"
    /\ \E st \in HalAnswers :
         /\ trace' = Issue(t, "QUAD_INOUT_FAST_READ_CMD", "4_LINES/24_BITS",
                           loc[t].offset, Min(loc[t].len, N25Q128A_PAGE_SIZE), st)
         /\ IF st # HAL_OK
            THEN /\ loc' = [loc EXCEPT ![t].rc = hal_error_to_status(st),
                                       ![t].ok = FALSE]
                 /\ Goto(t, "rd_release")
            ELSE /\ UNCHANGED loc
                 /\ Goto(t, "rd_rx")
    /\ UNCHANGED <<ret, holders, evs, hw, env>>

\* HAL_QSPI_Command (blocking) with the quad read command.
ReadCmd(t) ==
    /\ pc[t] = "rd_cmd"
    /\ \E st \in HalAnswers :
         /\ trace' = Issue(t, "QUAD_INOUT_FAST_READ_CMD", "4_LINES/24_BITS",
                           loc[t].offset, loc[t].len, st)
         /\ IF st # HAL_OK
            THEN /\ loc' = [loc EXCEPT ![t].rc = hal_error_to_status(st),
                                       ![t].ok = FALSE]
                 /\ Goto(t, "rd_release")
            ELSE /\ UNCHANGED loc
                 /\ Goto(t, "rd_rx")
    /\ UNCHANGED <<ret, holders, evs, hw, env>>

\* qspi_rx: HAL_QSPI_Receive_IT ...  A started receive brings the bytes of
\* the range into buf; a part that is busy with a program or erase does not
\* answer the read, and the bytes are anything.
ReadRx(t) ==
    /\ pc[t] = "rd_rx"
    /\ \E st \in HalAnswers :
         /\ trace' = Issue(t, "RECEIVE", "NONE", 0, loc[t].len, st)
         /\ \E g \in (IF wip THEN {Garbled, Erased} \cup Data ELSE {Erased}) :
              loc' = [loc EXCEPT ![t].st = st,
                                 ![t].ok = (loc[t].ok /\ st = HAL_OK),
                                 ![t].buf =
                                    IF st # HAL_OK THEN loc[t].buf
                                    ELSE IF wip THEN [i \in 1 .. loc[t].len |-> g]
                                    ELSE ReadData(loc[t].offset, loc[t].len)]
         /\ irq' \in Completion(st, "rx")
    /\ Goto(t, "rd_rx_wait")
    /\ UNCHANGED <<ret, holders, evs, wip, mem, polling, env>>

\* Mutant: qspi_rx returns without waiting for the signal.
ReadRxNoWait(t) ==
    /\ pc[t] = "rd_rx_wait"
    /\ loc' = IF loc[t].st # HAL_OK
              THEN [loc EXCEPT ![t].rc = hal_error_to_status(loc[t].st)]
              ELSE loc
    /\ Goto(t, "rd_release")
    /\ UNCHANGED <<ret, holders, evs, hw, trace, env>>

\* Mutant: the wait gives up when the signal is not there, and the receive
\* fails with ERR_TIMED_OUT.
ReadRxWaitTimeout(t) ==
    /\ pc[t] = "rd_rx_wait"
    /\ IF rx_event
       THEN /\ rx_event' = FALSE
            /\ loc' = IF loc[t].st # HAL_OK
                      THEN [loc EXCEPT ![t].rc = hal_error_to_status(loc[t].st)]
                      ELSE loc
       ELSE /\ UNCHANGED rx_event
            /\ loc' = [loc EXCEPT ![t].rc = ERR_TIMED_OUT]
    /\ Goto(t, "rd_release")
    /\ UNCHANGED <<ret, holders, cmd_event, tx_event, hw, trace, env>>

\* ... then event_wait(&rx_event), whatever the start returned.
ReadRxWait(t) ==
    /\ pc[t] = "rd_rx_wait"
    /\ rx_event
    /\ rx_event' = FALSE
    /\ loc' = IF loc[t].st # HAL_OK
              THEN [loc EXCEPT ![t].rc = hal_error_to_status(loc[t].st)]
              ELSE loc
    /\ Goto(t, "rd_release")
    /\ UNCHANGED <<ret, holders, cmd_event, tx_event, hw, trace, env>>

ReadRelease(t) ==
    /\ pc[t] = "rd_release"
    /\ mutex_release(t)
    /\ Return(t, loc[t].rc)
    /\ UNCHANGED <<evs, hw, trace, env>>

(***************************************************************************)
(* qspi_write_enable_unsafe: called by qspi_write_page_unsafe ("wp"),      *)
(* qspi_erase ("qe") and qspi_dummy_cycles_cfg_unsafe ("dc").              *)
(***************************************************************************)
\* Where the caller goes on with a write-enable result that is not NO_ERROR.
WpRetPc(kind) == IF kind = "write_page" THEN "wp_ret" ELSE "wb_ret"
QeRetPc(kind) == IF kind = "qspi_erase" THEN "qe_ret" ELSE "er_ret"

WeFailPc(l) ==
    CASE l.caller = "wp" -> WpRetPc(l.kind)
      [] l.caller = "qe" -> QeRetPc(l.kind)
      [] OTHER           -> "in_release"

WeOkPc(l) ==
    CASE l.caller = "wp" -> "wp_cmd"
      [] l.caller = "qe" -> "qe_cmd"
      [] OTHER           -> "dc_wcmd"

\* The caller's handling of a failed handshake: the page and erase engines
\* return it (sub), the init path stores it in result (rc).
WeFail(t, st) ==
    IF loc[t].caller = "dc"
    THEN [loc EXCEPT ![t].rc = hal_error_to_status(st), ![t].ok = FALSE]
    ELSE [loc EXCEPT ![t].sub = hal_error_to_status(st), ![t].ok = FALSE]

\* HAL_QSPI_Command (blocking) with WRITE_ENABLE_CMD.
WriteEnableCmd(t) ==
    /\ pc[t] = "we_cmd"
    /\ \E st \in HalAnswers :
         /\ trace' = Issue(t, "WRITE_ENABLE_CMD", "NONE", 0, 0, st)
         /\ IF st # HAL_OK
            THEN /\ loc' = WeFail(t, st)
                 /\ Goto(t, WeFailPc(loc[t]))
            ELSE /\ UNCHANGED loc
                 /\ Goto(t, "we_poll")
    /\ UNCHANGED <<ret, holders, evs, hw, env>>

\* HAL_QSPI_AutoPolling (blocking): read the status register until the
\* write-enable latch is set, or the HAL gives up.
WriteEnablePoll(t) ==
    /\ pc[t] = "we_poll"
    /\ \E st \in HalAnswers :
         /\ trace' = Issue(t, "READ_STATUS_REG_CMD/WREN", "NONE", 0, 1, st)
         /\ IF st # HAL_OK
            THEN /\ loc' = WeFail(t, st)
                 /\ Goto(t, WeFailPc(loc[t]))
            ELSE /\ UNCHANGED loc
                 /\ Goto(t, WeOkPc(loc[t]))
    /\ UNCHANGED <<ret, holders, evs, hw, env>>

(***************************************************************************)
(* qspi_auto_polling_mem_ready_unsafe: HAL_QSPI_AutoPolling_IT starts the  *)
(* controller polling the write-in-progress bit and returns at once; the   *)
(* function returns the start status without waiting for the match.        *)
(***************************************************************************)
qspi_auto_polling_mem_ready_unsafe(st) ==
    IF st # HAL_OK THEN hal_error_to_status(st) ELSE NO_ERROR

(***************************************************************************)
(* qspi_write_page_unsafe                                                  *)
(***************************************************************************)

\* Mutant: no alignment check.
WritePageEntryNoCheck(t) ==
    /\ pc[t] = "wp_entry"
    /\ loc' = [loc EXCEPT ![t].caller = "wp"]
    /\ Goto(t, "we_cmd")
    /\ UNCHANGED <<ret, holders, evs, hw, trace, env>>

WritePageEntry(t) ==
    /\ pc[t] = "wp_entry"
    /\ IF ~IS_ALIGNED(loc[t].addr, N25Q128A_PAGE_SIZE)
       THEN /\ loc' = [loc EXCEPT ![t].sub = ERR_INVALID_ARGS]
            /\ Goto(t, WpRetPc(loc[t].kind))
       ELSE /\ loc' = [loc EXCEPT ![t].caller = "wp"]
            /\ Goto(t, "we_cmd")
    /\ UNCHANGED <<ret, holders, evs, hw, trace, env>>

\* Mutant: the transmit follows also a failed page-program command.
WritePageCmdNoAbort(t) ==
    /\ pc[t] = "wp_cmd"
    /\ \E st \in HalAnswers :
         /\ trace' = Issue(t, "EXT_QUAD_IN_FAST_PROG_CMD", "4_LINES/24_BITS",
                           loc[t].addr, N25Q128A_PAGE_SIZE, st)
         /\ loc' = [loc EXCEPT ![t].ok = (loc[t].ok /\ st = HAL_OK)]
         /\ Goto(t, "wp_tx")
    /\ UNCHANGED <<ret, holders, evs, hw, env>>

\* HAL_QSPI_Command (blocking) with the quad page-program command.
WritePageCmd(t) ==
    /\ pc[t] = "wp_cmd"
    /\ \E st \in HalAnswers :
         /\ trace' = Issue(t, "EXT_QUAD_IN_FAST_PROG_CMD", "4_LINES/24_BITS",
                           loc[t].addr, N25Q128A_PAGE_SIZE, st)
         /\ IF st # HAL_OK
            THEN /\ loc' = [loc EXCEPT ![t].sub = hal_error_to_status(st),
                                       ![t].ok = FALSE]
                 /\ Goto(t, WpRetPc(loc[t].kind))
            ELSE /\ UNCHANGED loc
                 /\ Goto(t, "wp_tx")
    /\ UNCHANGED <<ret, holders, evs, hw, env>>

\* Mutant: the transmit sends the page that follows in the caller's buffer
\* (or a different pattern, for a buffer of one page).
WritePageTxWrongData(t) ==
    /\ pc[t] = "wp_tx"
    /\ \E st \in HalAnswers :
         /\ trace' = Issue(t, "TRANSMIT", "NONE", 0, N25Q128A_PAGE_SIZE, st)
         /\ loc' = [loc EXCEPT ![t].st = st, ![t].ok = (loc[t].ok /\ st = HAL_OK)]
         /\ IF st = HAL_OK
            THEN /\ irq' = "tx"
                 /\ mem' = [mem EXCEPT ![loc[t].addr \div N25Q128A_PAGE_SIZE] =
                                          Program(@, (loc[t].buf[loc[t].bp + 1] % MaxData) + 1)]
                 /\ wip' = TRUE
            ELSE /\ irq' \in Completion(st, "tx")
                 /\ UNCHANGED <<wip, mem>>
    /\ Goto(t, "wp_tx_wait")
    /\ UNCHANGED <<ret, holders, evs, polling, env>>

\* qspi_tx: HAL_QSPI_Transmit_IT ...  A started transmit sends the page at
\* data to the flash, which programs it and is busy until it is done.
WritePageTx(t) ==
    /\ pc[t] = "wp_tx"
    /\ \E st \in HalAnswers :
         /\ trace' = Issue(t, "TRANSMIT", "NONE", 0, N25Q128A_PAGE_SIZE, st)
         /\ loc' = [loc EXCEPT ![t].st = st, ![t].ok = (loc[t].ok /\ st = HAL_OK)]
         /\ IF st = HAL_OK
            THEN /\ irq' = "tx"
                 /\ mem' = [mem EXCEPT ![loc[t].addr \div N25Q128A_PAGE_SIZE] =
                                          Program(@, loc[t].buf[loc[t].bp + 1])]
                 /\ wip' = TRUE
            ELSE /\ irq' \in Completion(st, "tx")
                 /\ UNCHANGED <<wip, mem>>
    /\ Goto(t, "wp_tx_wait")
    /\ UNCHANGED <<ret, holders, evs, polling, env>>

\* Mutant: the page write returns after the transmit, without the poll.
WritePageTxWaitNoPoll(t) ==
    /\ pc[t] = "wp_tx_wait"
    /\ tx_event
    /\ tx_event' = FALSE
    /\ loc' = [loc EXCEPT ![t].sub = IF loc[t].st # HAL_OK
                                     THEN hal_error_to_status(loc[t].st)
                                     ELSE N25Q128A_PAGE_SIZE]
    /\ Goto(t, WpRetPc(loc[t].kind))
    /\ UNCHANGED <<ret, holders, cmd_event, rx_event, hw, trace, env>>

\* ... then event_wait(&tx_event), whatever the start returned.
WritePageTxWait(t) ==
    /\ pc[t] = "wp_tx_wait"
    /\ tx_event
    /\ tx_event' = FALSE
    /\ IF loc[t].st # HAL_OK
       THEN /\ loc' = [loc EXCEPT ![t].sub = hal_error_to_status(loc[t].st)]
            /\ Goto(t, WpRetPc(loc[t].kind))
       ELSE /\ UNCHANGED loc
            /\ Goto(t, "wp_poll")
    /\ UNCHANGED <<ret, holders, cmd_event, rx_event, hw, trace, env>>

\* qspi_auto_polling_mem_ready_unsafe, then return N25Q128A_PAGE_SIZE.
WritePagePoll(t) ==
    /\ pc[t] = "wp_poll"
    /\ \E st \in HalAnswers :
         /\ trace' = Issue(t, "READ_STATUS_REG_CMD/WIP", "NONE", 0, 1, st)
         /\ polling' = (st = HAL_OK)
         /\ LET r == qspi_auto_polling_mem_ready_unsafe(st) IN
              loc' = [loc EXCEPT ![t].sub = IF r # NO_ERROR THEN r
                                            ELSE N25Q128A_PAGE_SIZE,
                                 ![t].ok = (loc[t].ok /\ st = HAL_OK)]
    /\ Goto(t, WpRetPc(loc[t].kind))
    /\ UNCHANGED <<ret, holders, evs, irq, wip, mem, env>>

\* A direct caller of qspi_write_page_unsafe, which holds the mutex as the
\* function requires, gets the result and lets the mutex go.
WritePageReturn(t) ==
    /\ pc[t] = "wp_ret"
    /\ mutex_release(t)
    /\ Return(t, loc[t].sub)
    /\ UNCHANGED <<evs, hw, trace, env>>

(***************************************************************************)
(* spiflash_bdev_write_block                                               *)
(***************************************************************************)
WriteBlockEntry(t) ==
    /\ pc[t] = "wb_entry"
    /\ LET count == bio_trim_block_range(loc[t].block, loc[t].count) IN
         IF count = 0
         THEN Return(t, 0)
         ELSE /\ loc' = [loc EXCEPT ![t].count = count]
              /\ Goto(t, "wb_acquire")
              /\ UNCHANGED ret
    /\ UNCHANGED <<holders, evs, hw, trace, env>>

WriteBlockAcquire(t) ==
    /\ pc[t] = "wb_acquire"
    /\ mutex_acquire(t)
    /\ loc' = [loc EXCEPT ![t].rc = 0]
    /\ Goto(t, "wb_loop")
    /\ UNCHANGED <<ret, evs, hw, trace, env>>

\* Mutant: the page write is given the block index for its address.
WriteBlockLoopBlockIndex(t) ==
    /\ pc[t] = "wb_loop"
    /\ IF loc[t].count > 0
       THEN /\ loc' = [loc EXCEPT ![t].addr = loc[t].block]
            /\ Goto(t, "wp_entry")
       ELSE /\ UNCHANGED loc
            /\ Goto(t, "wb_release")
    /\ UNCHANGED <<ret, holders, evs, hw, trace, env>>

\* for (; count > 0; ...): call qspi_write_page_unsafe(block * PAGE_SIZE, buf).
WriteBlockLoop(t) ==
    /\ pc[t] = "wb_loop"
    /\ IF loc[t].count > 0
       THEN /\ loc' = [loc EXCEPT ![t].addr = loc[t].block * N25Q128A_PAGE_SIZE]
            /\ Goto(t, "wp_entry")
       ELSE /\ UNCHANGED loc
            /\ Goto(t, "wb_release")
    /\ UNCHANGED <<ret, holders, evs, hw, trace, env>>

\* Mutant: a failed page ends the loop with the bytes written so far.
WriteBlockPageDonePartial(t) ==
    /\ pc[t] = "wb_ret"
    /\ IF loc[t].sub < 0
       THEN /\ UNCHANGED loc
            /\ Goto(t, "wb_release")
       ELSE /\ loc' = [loc EXCEPT ![t].bp = loc[t].bp + 1,
                                  ![t].rc = loc[t].rc + loc[t].sub,
                                  ![t].count = loc[t].count - 1,
                                  ![t].block = loc[t].block + 1]
            /\ Goto(t, "wb_loop")
    /\ UNCHANGED <<ret, holders, evs, hw, trace, env>>

\* The loop body after the page write returned bytes_written (sub).
WriteBlockPageDone(t) ==
    /\ pc[t] = "wb_ret"
    /\ IF loc[t].sub < 0
       THEN /\ loc' = [loc EXCEPT ![t].rc = loc[t].sub]
            /\ Goto(t, "wb_release")
       ELSE /\ loc' = [loc EXCEPT ![t].bp = loc[t].bp + 1,
                                  ![t].rc = loc[t].rc + loc[t].sub,
                                  ![t].count = loc[t].count - 1,
                                  ![t].block = loc[t].block + 1]
            /\ Goto(t, "wb_loop")
    /\ UNCHANGED <<ret, holders, evs, hw, trace, env>>

WriteBlockRelease(t) ==
    /\ pc[t] = "wb_release"
    /\ mutex_release(t)
    /\ Return(t, loc[t].rc)
    /\ UNCHANGED <<evs, hw, trace, env>>

(***************************************************************************)
(* qspi_erase (through qspi_bulk_erase, qspi_erase_sector and              *)
(* qspi_erase_subsector)                                                   *)
(***************************************************************************)
EraseInstructions == {"SUBSECTOR_ERASE_CMD", "SECTOR_ERASE_CMD", "BULK_ERASE_CMD"}

\* num_erased_bytes of the switch.
NumErasedBytes(instr) ==
    CASE instr = "SUBSECTOR_ERASE_CMD" -> N25Q128A_SUBSECTOR_SIZE
      [] instr = "SECTOR_ERASE_CMD"    -> N25Q128A_SECTOR_SIZE
      [] instr = "BULK_ERASE_CMD"      -> N25Q128A_FLASH_SIZE
      [] OTHER                         -> 0

\* erase_cmd.AddressMode of the switch.
EraseAddressMode(instr) ==
    IF instr = "BULK_ERASE_CMD" THEN "NONE" ELSE "1_LINE/24_BITS"

\* Mutant: the erase instruction is sent without the write-enable handshake.
QspiEraseEntryNoWriteEnable(t) ==
    /\ pc[t] = "qe_entry"
    /\ IF \/ (loc[t].instr = "BULK_ERASE_CMD" /\ loc[t].addr # 0)
          \/ loc[t].instr \notin EraseInstructions
       THEN /\ loc' = [loc EXCEPT ![t].sub = ERR_INVALID_ARGS]
            /\ Goto(t, QeRetPc(loc[t].kind))
       ELSE /\ loc' = [loc EXCEPT ![t].num = NumErasedBytes(loc[t].instr),
                                  ![t].caller = "qe"]
            /\ Goto(t, "qe_cmd")
    /\ UNCHANGED <<ret, holders, evs, hw, trace, env>>

\* Mutant: a bulk erase is accepted whatever its address.
QspiEraseEntryNoBulkCheck(t) ==
    /\ pc[t] = "qe_entry"
    /\ IF loc[t].instr \notin EraseInstructions
       THEN /\ loc' = [loc EXCEPT ![t].sub = ERR_INVALID_ARGS]
            /\ Goto(t, QeRetPc(loc[t].kind))
       ELSE /\ loc' = [loc EXCEPT ![t].num = NumErasedBytes(loc[t].instr),
                                  ![t].caller = "qe"]
            /\ Goto(t, "we_cmd")
    /\ UNCHANGED <<ret, holders, evs, hw, trace, env>>

QspiEraseEntry(t) ==
    /\ pc[t] = "qe_entry"
    /\ IF \/ (loc[t].instr = "BULK_ERASE_CMD" /\ loc[t].addr # 0)
          \/ loc[t].instr \notin EraseInstructions
       THEN /\ loc' = [loc EXCEPT ![t].sub = ERR_INVALID_ARGS]
            /\ Goto(t, QeRetPc(loc[t].kind))
       ELSE /\ loc' = [loc EXCEPT ![t].num = NumErasedBytes(loc[t].instr),
                                  ![t].caller = "qe"]
            /\ Goto(t, "we_cmd")
    /\ UNCHANGED <<ret, holders, evs, hw, trace, env>>

\* qspi_cmd: HAL_QSPI_Command_IT ...  A started erase instruction clears its
\* sector, subsector or the chip, and the flash is busy until it is done.
QspiEraseCmd(t) ==
    /\ pc[t] = "qe_cmd"
    /\ \E st \in HalAnswers :
         /\ trace' = Issue(t, loc[t].instr, EraseAddressMode(loc[t].instr),
                           loc[t].addr, 0, st)
         /\ loc' = [loc EXCEPT ![t].st = st, ![t].ok = (loc[t].ok /\ st = HAL_OK)]
         /\ IF st = HAL_OK
            THEN /\ irq' = "cmd"
                 /\ mem' = [p \in Pages |->
                              IF p \in ErasedPages(loc[t].instr, loc[t].addr)
                              THEN Erased ELSE mem[p]]
                 /\ wip' = TRUE
            ELSE /\ irq' \in Completion(st, "cmd")
                 /\ UNCHANGED <<wip, mem>>
    /\ Goto(t, "qe_cmd_wait")
    /\ UNCHANGED <<ret, holders, evs, polling, env>>

\* Mutant: the wait leaves the signal set when it ends.
QspiEraseCmdWaitKeepSignal(t) ==
    /\ pc[t] = "qe_cmd_wait"
    /\ cmd_event
    /\ IF loc[t].st # HAL_OK
       THEN /\ loc' = [loc EXCEPT ![t].sub = ERR_GENERIC]
            /\ Goto(t, QeRetPc(loc[t].kind))
       ELSE /\ UNCHANGED loc
            /\ Goto(t, "qe_poll")
    /\ UNCHANGED <<ret, holders, evs, hw, trace, env>>

\* ... then event_wait(&cmd_event), whatever the start returned; any status
\* but HAL_OK makes qspi_erase return ERR_GENERIC.
QspiEraseCmdWait(t) ==
    /\ pc[t] = "qe_cmd_wait"
    /\ cmd_event
    /\ cmd_event' = FALSE
    /\ IF loc[t].st # HAL_OK
       THEN /\ loc' = [loc EXCEPT ![t].sub = ERR_GENERIC]
            /\ Goto(t, QeRetPc(loc[t].kind))
       ELSE /\ UNCHANGED loc
            /\ Goto(t, "qe_poll")
    /\ UNCHANGED <<ret, holders, tx_event, rx_event, hw, trace, env>>

\* qspi_auto_polling_mem_ready_unsafe, then return num_erased_bytes.
QspiErasePoll(t) ==
    /\ pc[t] = "qe_poll"
    /\ \E st \in HalAnswers :
         /\ trace' = Issue(t, "READ_STATUS_REG_CMD/WIP", "NONE", 0, 1, st)
         /\ polling' = (st = HAL_OK)
         /\ LET r == qspi_auto_polling_mem_ready_unsafe(st) IN
              loc' = [loc EXCEPT ![t].sub = IF r # NO_ERROR THEN r
                                            ELSE loc[t].num,
                                 ![t].ok = (loc[t].ok /\ st = HAL_OK)]
    /\ Goto(t, QeRetPc(loc[t].kind))
    /\ UNCHANGED <<ret, holders, evs, irq, wip, mem, env>>

\* A direct caller of qspi_erase, which holds the mutex as the function
\* requires, gets the result and lets the mutex go.  The record of the call
\* keeps the instruction it passed.
QspiEraseReturn(t) ==
    /\ pc[t] = "qe_ret"
    /\ mutex_release(t)
    /\ ret' = [ret EXCEPT ![t] = loc[t].sub]
    /\ loc' = [loc EXCEPT ![t] = [Returned(loc[t]) EXCEPT !.instr = loc[t].instr]]
    /\ Goto(t, "idle")
    /\ UNCHANGED <<evs, hw, trace, env>>

(***************************************************************************)
(* spiflash_bdev_erase                                                     *)
(***************************************************************************)
EraseEntry(t) ==
    /\ pc[t] = "er_entry"
    /\ LET len == bio_trim_range(loc[t].offset, loc[t].len) IN
         IF len = 0
         THEN Return(t, 0)
         ELSE /\ loc' = [loc EXCEPT ![t].len = len, ![t].rc = 0]
              /\ Goto(t, "er_acquire")
              /\ UNCHANGED ret
    /\ UNCHANGED <<holders, evs, hw, trace, env>>

\* Mutant: the erase goes on without taking the mutex.
EraseAcquireNoLock(t) ==
    /\ pc[t] = "er_acquire"
    /\ Goto(t, "er_select")
    /\ UNCHANGED <<loc, ret, holders, evs, hw, trace, env>>

EraseAcquire(t) ==
    /\ pc[t] = "er_acquire"
    /\ mutex_acquire(t)
    /\ Goto(t, "er_select")
    /\ UNCHANGED <<loc, ret, evs, hw, trace, env>>

\* The erase strategy: the whole flash in one bulk erase, or else the loops.
EraseSelect(t) ==
    /\ pc[t] = "er_select"
    /\ IF loc[t].len = N25Q128A_FLASH_SIZE /\ loc[t].offset = 0
       THEN /\ loc' = [loc EXCEPT ![t].instr = "BULK_ERASE_CMD", ![t].addr = 0]
            /\ Goto(t, "qe_entry")
       ELSE /\ UNCHANGED loc
            /\ Goto(t, "er_loop")
    /\ UNCHANGED <<ret, holders, evs, hw, trace, env>>

\* Mutant: the sector loop runs only while more than a sector is left.
EraseLoopMoreThanSector(t) ==
    /\ pc[t] = "er_loop"
    /\ IF loc[t].len - loc[t].rc > N25Q128A_SECTOR_SIZE
       THEN /\ loc' = [loc EXCEPT ![t].instr = "SECTOR_ERASE_CMD",
                                  ![t].addr = loc[t].offset]
            /\ Goto(t, "qe_entry")
       ELSE IF loc[t].rc < loc[t].len
       THEN /\ loc' = [loc EXCEPT ![t].instr = "SUBSECTOR_ERASE_CMD",
                                  ![t].addr = loc[t].offset]
            /\ Goto(t, "qe_entry")
       ELSE /\ UNCHANGED loc
            /\ Goto(t, "er_release")
    /\ UNCHANGED <<ret, holders, evs, hw, trace, env>>

\* Mutant: the subsector loop runs until more than the length is erased.
EraseLoopOneMore(t) ==
    /\ pc[t] = "er_loop"
    /\ IF loc[t].len - loc[t].rc >= N25Q128A_SECTOR_SIZE
       THEN /\ loc' = [loc EXCEPT ![t].instr = "SECTOR_ERASE_CMD",
                                  ![t].addr = loc[t].offset]
            /\ Goto(t, "qe_entry")
       ELSE IF loc[t].rc <= loc[t].len
       THEN /\ loc' = [loc EXCEPT ![t].instr = "SUBSECTOR_ERASE_CMD",
                                  ![t].addr = loc[t].offset]
            /\ Goto(t, "qe_entry")
       ELSE /\ UNCHANGED loc
            /\ Goto(t, "er_release")
    /\ UNCHANGED <<ret, holders, evs, hw, trace, env>>

\* The heads of the two while loops: sectors while a whole sector is left,
\* then subsectors while anything is left.  total_erased (rc) only grows, so
\* the first loop's condition stays false once it was false.
EraseLoop(t) ==
    /\ pc[t] = "er_loop"
    /\ IF loc[t].len - loc[t].rc >= N25Q128A_SECTOR_SIZE
       THEN /\ loc' = [loc EXCEPT ![t].instr = "SECTOR_ERASE_CMD",
                                  ![t].addr = loc[t].offset]
            /\ Goto(t, "qe_entry")
       ELSE IF loc[t].rc < loc[t].len
       THEN /\ loc' = [loc EXCEPT ![t].instr = "SUBSECTOR_ERASE_CMD",
                                  ![t].addr = loc[t].offset]
            /\ Goto(t, "qe_entry")
       ELSE /\ UNCHANGED loc
            /\ Goto(t, "er_release")
    /\ UNCHANGED <<ret, holders, evs, hw, trace, env>>

\* Mutant: a failed chunk returns its error at once, past the release.
EraseChunkDoneLeak(t) ==
    /\ pc[t] = "er_ret"
    /\ IF loc[t].sub < 0
       THEN Return(t, loc[t].sub)
       ELSE /\ loc' = [loc EXCEPT ![t].rc = IF loc[t].instr = "BULK_ERASE_CMD"
                                            THEN loc[t].sub
                                            ELSE loc[t].rc + loc[t].sub,
                                  ![t].offset = loc[t].offset + loc[t].sub]
            /\ Goto(t, IF loc[t].instr = "BULK_ERASE_CMD" THEN "er_release"
                       ELSE "er_loop")
            /\ UNCHANGED ret
    /\ UNCHANGED <<holders, evs, hw, trace, env>>

\* After qspi_erase returned erased (sub): the bulk erase's result is the
\* total; a chunk's error replaces the total; a chunk's size is added.
EraseChunkDone(t) ==
    /\ pc[t] = "er_ret"
    /\ IF loc[t].instr = "BULK_ERASE_CMD" \/ loc[t].sub < 0
       THEN /\ loc' = [loc EXCEPT ![t].rc = loc[t].sub]
            /\ Goto(t, "er_release")
       ELSE /\ loc' = [loc EXCEPT ![t].rc = loc[t].rc + loc[t].sub,
                                  ![t].offset = loc[t].offset + loc[t].sub]
            /\ Goto(t, "er_loop")
    /\ UNCHANGED <<ret, holders, evs, hw, trace, env>>

\* Mutant: a successful erase returns the trimmed length, not the bytes the
\* chunks erased.
EraseReleaseLen(t) ==
    /\ pc[t] = "er_release"
    /\ mutex_release(t)
    /\ Return(t, IF loc[t].rc < 0 THEN loc[t].rc ELSE loc[t].len)
    /\ UNCHANGED <<evs, hw, trace, env>>

EraseRelease(t) ==
    /\ pc[t] = "er_release"
    /\ mutex_release(t)
    /\ Return(t, loc[t].rc)
    /\ UNCHANGED <<evs, hw, trace, env>>

(***************************************************************************)
(* spiflash_ioctl                                                          *)
(***************************************************************************)
\* Mutant: ioctl answers under the device mutex.
IoctlLocked(t) ==
    /\ pc[t] = "io_entry"
    /\ holders = {}
    /\ Return(t, ERR_NOT_IMPLEMENTED)
    /\ UNCHANGED <<holders, evs, hw, trace, env>>

Ioctl(t) ==
    /\ pc[t] = "io_entry"
    /\ Return(t, ERR_NOT_IMPLEMENTED)
    /\ UNCHANGED <<holders, evs, hw, trace, env>>

(***************************************************************************)
(* qspi_cmd, as qspi_reset_memory_unsafe uses it.                          *)
(***************************************************************************)
\* HAL_QSPI_Command_IT ...
QspiCmdStart(t, from, instr, to) ==
    /\ pc[t] = from
    /\ \E st \in HalAnswers :
         /\ trace' = Issue(t, instr, "NONE", 0, 0, st)
         /\ loc' = [loc EXCEPT ![t].st = st, ![t].ok = (loc[t].ok /\ st = HAL_OK)]
         /\ irq' \in Completion(st, "cmd")
    /\ Goto(t, to)
    /\ UNCHANGED <<ret, holders, evs, wip, mem, polling, env>>

\* ... then event_wait(&cmd_event); the caller returns a failed status
\* translated, which ends qspi_flash_init's setup.
QspiCmdWait(t, from, to) ==
    /\ pc[t] = from
    /\ cmd_event
    /\ cmd_event' = FALSE
    /\ IF loc[t].st # HAL_OK
       THEN /\ loc' = [loc EXCEPT ![t].rc = hal_error_to_status(loc[t].st)]
            /\ Goto(t, "in_release")
       ELSE /\ UNCHANGED loc
            /\ Goto(t, to)
    /\ UNCHANGED <<ret, holders, tx_event, rx_event, hw, trace, env>>

\* A blocking HAL call of the init path returned st: a failure ends the
\* setup with the translated status in result.
InitHalCall(t, from, to, st) ==
    /\ pc[t] = from
    /\ IF st # HAL_OK
       THEN /\ loc' = [loc EXCEPT ![t].rc = hal_error_to_status(st),
                                  ![t].ok = FALSE]
            /\ Goto(t, "in_release")
       ELSE /\ UNCHANGED loc
            /\ Goto(t, to)
    /\ UNCHANGED <<ret, holders, evs, hw, env>>

(***************************************************************************)
(* qspi_flash_init                                                         *)
(***************************************************************************)
\* pow2.h: the position of the highest set bit of val.
RECURSIVE log2_uint(_)
log2_uint(val) == IF val <= 1 THEN 0 ELSE 1 + log2_uint(val \div 2)

\* qspi_flash_device and geometry before qspi_flash_init fills them in.
NoDevice ==
    [name |-> "none", block_size |-> 0, block_count |-> 0, geometry_count |-> 0,
     geometry |-> [erase_size |-> 0, erase_shift |-> 0, start |-> 0, size |-> 0],
     read |-> "none", read_block |-> "none", write_block |-> "none",
     erase |-> "none", ioctl |-> "none", erase_byte |-> 0]

\* The geometry, the arguments of bio_initialize_bdev, the hooks and the
\* erase byte as qspi_flash_init sets them.
RegisteredDevice ==
    [name |-> "qspi-flash",
     block_size |-> N25Q128A_PAGE_SIZE,
     block_count |-> N25Q128A_FLASH_SIZE \div N25Q128A_PAGE_SIZE,
     geometry_count |-> 1,
     geometry |-> [erase_size |-> log2_uint(N25Q128A_SUBSECTOR_SIZE),
                   erase_shift |-> log2_uint(N25Q128A_SUBSECTOR_SIZE),
                   start |-> 0,
                   size |-> N25Q128A_FLASH_SIZE],
     read |-> "spiflash_bdev_read",
     read_block |-> "spiflash_bdev_read_block",
     write_block |-> "spiflash_bdev_write_block",
     erase |-> "spiflash_bdev_erase",
     ioctl |-> "spiflash_ioctl",
     erase_byte |-> 255]

\* event_init x3, mutex_init, mutex_acquire (a fresh mutex: it succeeds).
InitEntry(t) ==
    /\ pc[t] = "in_entry"
    /\ cmd_event' = FALSE
    /\ tx_event' = FALSE
    /\ rx_event' = FALSE
    /\ holders' = {t}
    /\ Goto(t, "in_deinit")
    /\ UNCHANGED <<loc, ret, hw, trace, env>>

InitDeInit(t) ==
    \E st \in HalAnswers :
        InitHalCall(t, "in_deinit", "in_init", st) /\ UNCHANGED trace

InitHalInit(t) ==
    \E st \in HalAnswers :
        InitHalCall(t, "in_init", "rm_en", st) /\ UNCHANGED trace

\* qspi_reset_memory_unsafe
ResetEnableCmd(t) == QspiCmdStart(t, "rm_en", "RESET_ENABLE_CMD", "rm_en_wait")

ResetEnableWait(t) == QspiCmdWait(t, "rm_en_wait", "rm_rst")

ResetMemoryCmd(t) == QspiCmdStart(t, "rm_rst", "RESET_MEMORY_CMD", "rm_rst_wait")

ResetMemoryWait(t) == QspiCmdWait(t, "rm_rst_wait", "rm_poll")

\* status = qspi_auto_polling_mem_ready_unsafe(); a status that is not
\* NO_ERROR is passed through hal_error_to_status once more.
ResetMemoryPoll(t) ==
    /\ pc[t] = "rm_poll"
    /\ \E st \in HalAnswers :
         /\ trace' = Issue(t, "READ_STATUS_REG_CMD/WIP", "NONE", 0, 1, st)
         /\ polling' = (st = HAL_OK)
         /\ LET r == qspi_auto_polling_mem_ready_unsafe(st) IN
              IF r # NO_ERROR
              THEN /\ loc' = [loc EXCEPT ![t].rc = hal_error_to_status(r),
                                         ![t].ok = FALSE]
                   /\ Goto(t, "in_release")
              ELSE /\ UNCHANGED loc
                   /\ Goto(t, "dc_rcmd")
    /\ UNCHANGED <<ret, holders, evs, irq, wip, mem, env>>

\* qspi_dummy_cycles_cfg_unsafe
DummyReadCmd(t) ==
    \E st \in HalAnswers :
        /\ InitHalCall(t, "dc_rcmd", "dc_rx", st)
        /\ trace' = Issue(t, "READ_VOL_CFG_REG_CMD", "NONE", 0, 1, st)

DummyReceive(t) ==
    \E st \in HalAnswers :
        /\ InitHalCall(t, "dc_rx", "we_cmd", st)
        /\ trace' = Issue(t, "RECEIVE", "NONE", 0, 1, st)

DummyWriteCmd(t) ==
    \E st \in HalAnswers :
        /\ InitHalCall(t, "dc_wcmd", "dc_tx", st)
        /\ trace' = Issue(t, "WRITE_VOL_CFG_REG_CMD", "NONE", 0, 1, st)

DummyTransmit(t) ==
    \E st \in HalAnswers :
        /\ InitHalCall(t, "dc_tx", "in_register", st)
        /\ trace' = Issue(t, "TRANSMIT", "NONE", 0, 1, st)

\* bio_initialize_bdev, the hooks, bio_register_device.
InitRegister(t) ==
    /\ pc[t] = "in_register"
    /\ bdev' = RegisteredDevice
    /\ registered' = TRUE
    /\ Goto(t, "in_release")
    /\ UNCHANGED <<loc, ret, holders, evs, hw, trace, nops>>

\* err: mutex_release; return NO_ERROR.
InitRelease(t) ==
    /\ pc[t] = "in_release"
    /\ mutex_release(t)
    /\ Return(t, NO_ERROR)
    /\ UNCHANGED <<evs, hw, trace, env>>

(***************************************************************************)
(* Callers.                                                                *)
(***************************************************************************)
\* The buffer of a write: page i of it holds pattern ((d + i - 1) mod MaxData) + 1.
Buffer(d, count) == [i \in 1 .. count |-> ((d + i - 2) % MaxData) + 1]

\* A request: the entry point, its two arguments, and the pattern that
\* starts the buffer of a write.
RequestD(kind, a, n, d) == [kind |-> kind, a |-> a, n |-> n, d |-> d]

Request(kind, a, n) == RequestD(kind, a, n, 1)

PagesPerSubsector == N25Q128A_SUBSECTOR_SIZE \div N25Q128A_PAGE_SIZE

\* The requests the callers of Spec make: a block read and a write of
\* several pages that run past the end of the device, an erase of two
\* chunks, an ioctl.
Requests ==
    { Request("read_block", NumPages - 1, 2),
      Request("write_block", NumPages - PagesPerSubsector, PagesPerSubsector + 1),
      Request("erase", 0, N25Q128A_SECTOR_SIZE + N25Q128A_SUBSECTOR_SIZE),
      Request("ioctl", 0, 0) }

EntryPc(kind) ==
    CASE kind = "read"        -> "rd_entry"
      [] kind = "read_block"  -> "rb_entry"
      [] kind = "write_block" -> "wb_entry"
      [] kind = "erase"       -> "er_entry"
      [] kind = "ioctl"       -> "io_entry"
      [] kind = "write_page"  -> "wp_entry"
      [] kind = "qspi_erase"  -> "qe_entry"
      [] OTHER                -> "in_entry"

\* The locals of call number id as it enters the driver with request r.
NewLoc(r, id) ==
    [NoLoc EXCEPT !.kind = r.kind, !.id = id, !.a0 = r.a, !.n0 = r.n,
                  !.offset = IF r.kind \in {"read", "erase"} THEN r.a ELSE 0,
                  !.len = IF r.kind \in {"read", "erase"} THEN r.n ELSE 0,
                  !.block = IF r.kind \in {"read_block", "write_block"} THEN r.a ELSE 0,
                  !.count = IF r.kind \in {"read_block", "write_block"} THEN r.n ELSE 0,
                  !.addr = IF r.kind \in {"write_page", "qspi_erase"} THEN r.a ELSE 0,
                  !.buf = IF r.kind \in {"write_block", "write_page"}
                          THEN Buffer(r.d, IF r.kind = "write_page" THEN 1 ELSE r.n)
                          ELSE <<>>]

\* No thread is inside the driver.
Idle == \A u \in Threads : pc[u] = "idle"

\* A thread calls an entry point of the registered block device.  The
\* records of the calls that returned (ret, loc, trace) are history: all are
\* dropped when a call enters the idle driver, and the caller's own are
\* dropped when it calls again while another thread is inside.
Call(t) ==
    /\ pc[t] = "idle"
    /\ registered
    /\ nops < MaxCalls
    /\ \E r \in Requests :
         /\ loc' = [IF Idle THEN [u \in Threads |-> NoLoc] ELSE loc
                       EXCEPT ![t] = NewLoc(r, nops + 1)]
         /\ Goto(t, EntryPc(r.kind))
    /\ ret' = IF Idle THEN [u \in Threads |-> 0] ELSE [ret EXCEPT ![t] = 0]
    /\ trace' = IF Idle THEN <<>> ELSE SelectSeq(trace, LAMBDA x : x.by # t)
    /\ nops' = nops + 1
    /\ UNCHANGED <<holders, evs, hw, registered, bdev>>

(***************************************************************************)
(* The system: boot runs qspi_flash_init, then the threads use the device. *)
(***************************************************************************)
Init ==
    /\ pc = [t \in Threads |-> IF t = BootThread THEN "in_entry" ELSE "idle"]
    /\ loc = [t \in Threads |->
                IF t = BootThread
                THEN [NoLoc EXCEPT !.kind = "init", !.caller = "dc"]
                ELSE NoLoc]
    /\ ret = [t \in Threads |-> 0]
    /\ holders = {}
    /\ cmd_event = FALSE
    /\ tx_event = FALSE
    /\ rx_event = FALSE
    /\ irq = "none"
    /\ wip = FALSE
    /\ polling = FALSE
    /\ mem = [p \in Pages |-> Erased]
    /\ trace = <<>>
    /\ nops = 0
    /\ registered = FALSE
    /\ bdev = NoDevice

InitStep(t) ==
    \/ InitEntry(t) \/ InitDeInit(t) \/ InitHalInit(t)
    \/ ResetEnableCmd(t) \/ ResetEnableWait(t)
    \/ ResetMemoryCmd(t) \/ ResetMemoryWait(t) \/ ResetMemoryPoll(t)
    \/ DummyReadCmd(t) \/ DummyReceive(t) \/ DummyWriteCmd(t) \/ DummyTransmit(t)
    \/ InitRegister(t) \/ InitRelease(t)

ReadStep(t) ==
    \/ ReadBlockEntry(t) \/ ReadEntry(t) \/ ReadAcquire(t) \/ ReadCmd(t)
    \/ ReadRx(t) \/ ReadRxWait(t) \/ ReadRelease(t)

WriteEnableStep(t) == WriteEnableCmd(t) \/ WriteEnablePoll(t)

WritePageStep(t) ==
    \/ WritePageEntry(t) \/ WritePageCmd(t) \/ WritePageTx(t)
    \/ WritePageTxWait(t) \/ WritePagePoll(t)

WriteBlockStep(t) ==
    \/ WriteBlockEntry(t) \/ WriteBlockAcquire(t) \/ WriteBlockLoop(t)
    \/ WriteBlockPageDone(t) \/ WriteBlockRelease(t)

QspiEraseStep(t) ==
    \/ QspiEraseEntry(t) \/ QspiEraseCmd(t) \/ QspiEraseCmdWait(t)
    \/ QspiErasePoll(t)

EraseStep(t) ==
    \/ EraseEntry(t) \/ EraseAcquire(t) \/ EraseSelect(t) \/ EraseLoop(t)
    \/ EraseChunkDone(t) \/ EraseRelease(t)

\* One step of thread t inside the driver.
Step(t) ==
    \/ InitStep(t) \/ ReadStep(t) \/ WriteEnableStep(t) \/ WritePageStep(t)
    \/ WriteBlockStep(t) \/ QspiEraseStep(t) \/ EraseStep(t) \/ Ioctl(t)

Interrupt ==
    \/ HAL_QSPI_CmdCpltCallback \/ HAL_QSPI_RxCpltCallback
    \/ HAL_QSPI_TxCpltCallback

Next ==
    \/ \E t \in Threads : Call(t) \/ Step(t)
    \/ Interrupt
    \/ FlashReady
    \/ StatusMatch

Spec == Init /\ [][Next]_vars

(***************************************************************************)
(* One call on the initialised, idle device, for every request in range.   *)
(***************************************************************************)
\* The state after a successful qspi_flash_init in which thread BootThread
\* has just made call 1 with request r, on a flash whose pages all hold m.
OneCall(r, m, held) ==
    /\ pc = [t \in Threads |-> IF t = BootThread THEN EntryPc(r.kind) ELSE "idle"]
    /\ loc = [t \in Threads |-> IF t = BootThread THEN NewLoc(r, 1) ELSE NoLoc]
    /\ ret = [t \in Threads |-> 0]
    /\ holders = held
    /\ cmd_event = FALSE
    /\ tx_event = FALSE
    /\ rx_event = FALSE
    /\ irq = "none"
    /\ wip = FALSE
    /\ polling = FALSE
    /\ mem = [p \in Pages |-> m]
    /\ trace = <<>>
    /\ nops = 1
    /\ registered = TRUE
    /\ bdev = RegisteredDevice

\* erase(offset, len) for every offset and length up to MaxOver past the
\* end of the device, on a fully programmed flash.
InitErase ==
    \E offset \in 0 .. (N25Q128A_FLASH_SIZE + MaxOver),
       len \in 0 .. (N25Q128A_FLASH_SIZE + MaxOver) :
        OneCall(Request("erase", offset, len), 1, {})

NextErase ==
    \/ \E t \in Threads : EraseStep(t) \/ QspiEraseStep(t) \/ WriteEnableStep(t)
    \/ HAL_QSPI_CmdCpltCallback
    \/ FlashReady
    \/ StatusMatch

SpecErase == InitErase /\ [][NextErase]_vars

\* The same, with a thread that is scheduled when it can run, a completion
\* interrupt that is served when it is pending, and a flash and a
\* controller that finish what they were started on.
SpecEraseFair ==
    /\ SpecErase
    /\ WF_vars(\E t \in Threads : EraseStep(t) \/ QspiEraseStep(t) \/ WriteEnableStep(t))
    /\ WF_vars(HAL_QSPI_CmdCpltCallback)
    /\ WF_vars(FlashReady)
    /\ WF_vars(StatusMatch)

\* qspi_write_page_unsafe(addr, data) for every address of the device and
\* every pattern, by a caller that holds the mutex, on an erased flash.
InitWritePage ==
    \E addr \in 0 .. (N25Q128A_FLASH_SIZE - 1), d \in Data :
        OneCall(RequestD("write_page", addr, 1, d), Erased, {BootThread})

NextWritePage ==
    \/ \E t \in Threads : WritePageStep(t) \/ WriteEnableStep(t) \/ WritePageReturn(t)
    \/ HAL_QSPI_TxCpltCallback
    \/ FlashReady
    \/ StatusMatch

SpecWritePage == InitWritePage /\ [][NextWritePage]_vars

\* write_block(block, count) for every block up to MaxOver past the last
\* one, every count up to MaxCount and every pattern, on an erased flash.
InitWriteBlock ==
    \E block \in 0 .. (NumPages - 1 + MaxOver), count \in 0 .. MaxCount, d \in Data :
        OneCall(RequestD("write_block", block, count, d), Erased, {})

NextWriteBlock ==
    \/ \E t \in Threads : WriteBlockStep(t) \/ WritePageStep(t) \/ WriteEnableStep(t)
    \/ HAL_QSPI_TxCpltCallback
    \/ FlashReady
    \/ StatusMatch

SpecWriteBlock == InitWriteBlock /\ [][NextWriteBlock]_vars

\* Instructions of the part that are not erase instructions.
OtherInstructions ==
    {"WRITE_ENABLE_CMD", "EXT_QUAD_IN_FAST_PROG_CMD", "QUAD_INOUT_FAST_READ_CMD",
     "RESET_ENABLE_CMD", "RESET_MEMORY_CMD"}

\* qspi_erase(block_addr, instruction) for every address of the device and
\* every instruction, by a caller that holds the mutex, on a fully
\* programmed flash.
InitQspiErase ==
    \E addr \in 0 .. (N25Q128A_FLASH_SIZE - 1),
       instr \in EraseInstructions \cup OtherInstructions :
        /\ pc = [t \in Threads |-> IF t = BootThread THEN "qe_entry" ELSE "idle"]
        /\ loc = [t \in Threads |->
                    IF t = BootThread
                    THEN [NewLoc(Request("qspi_erase", addr, 0), 1)
                             EXCEPT !.instr = instr]
                    ELSE NoLoc]
        /\ ret = [t \in Threads |-> 0]
        /\ holders = {BootThread}
        /\ cmd_event = FALSE
        /\ tx_event = FALSE
        /\ rx_event = FALSE
        /\ irq = "none"
        /\ wip = FALSE
        /\ polling = FALSE
        /\ mem = [p \in Pages |-> 1]
        /\ trace = <<>>
        /\ nops = 1
        /\ registered = TRUE
        /\ bdev = RegisteredDevice

NextQspiErase ==
    \/ \E t \in Threads : QspiEraseStep(t) \/ WriteEnableStep(t) \/ QspiEraseReturn(t)
    \/ HAL_QSPI_CmdCpltCallback
    \/ FlashReady
    \/ StatusMatch

SpecQspiErase == InitQspiErase /\ [][NextQspiErase]_vars

\* read(offset, len) and read_block(block, count) for every offset and
\* length, block and count up to MaxOver past the end of the device.
InitRead ==
    \/ \E offset \in 0 .. (N25Q128A_FLASH_SIZE + MaxOver),
          len \in 0 .. (N25Q128A_FLASH_SIZE + MaxOver) :
           OneCall(Request("read", offset, len), 1, {})
    \/ \E block \in 0 .. (NumPages - 1 + MaxOver),
          count \in 0 .. (NumPages + MaxOver) :
           OneCall(Request("read_block", block, count), 1, {})

NextRead ==
    \/ \E t \in Threads : ReadStep(t)
    \/ HAL_QSPI_RxCpltCallback

SpecRead == InitRead /\ [][NextRead]_vars

\* Requests of which nothing is left inside the device: a range or block
\* range that starts at or past the end, or is empty.
ZeroRequests ==
    {r \in {Request(k, a, n) :
               k \in {"read", "erase"},
               a \in {0, N25Q128A_FLASH_SIZE - 1}
                        \cup (N25Q128A_FLASH_SIZE .. (N25Q128A_FLASH_SIZE + MaxOver)),
               n \in 0 .. N25Q128A_PAGE_SIZE} :
        bio_trim_range(r.a, r.n) = 0}
    \cup
    {r \in {Request(k, a, n) :
               k \in {"read_block", "write_block"},
               a \in {0, NumPages - 1} \cup (NumPages .. (NumPages + MaxOver)),
               n \in 0 .. MaxCount} :
        bio_trim_block_range(r.a, r.n) = 0}

\* Byte reads inside the device and across its end.
EndRequests ==
    { Request("read", 0, N25Q128A_PAGE_SIZE),
      Request("read", N25Q128A_FLASH_SIZE - 1, N25Q128A_PAGE_SIZE) }

\* One thread has called with a request of Requests or EndRequests, the
\* other with a request of ZeroRequests, on the initialised device.
InitTrim ==
    \E r \in Requests \cup EndRequests, z \in ZeroRequests :
        \E t \in Threads :
            /\ pc = [u \in Threads |-> IF u = t THEN EntryPc(r.kind) ELSE EntryPc(z.kind)]
            /\ loc = [u \in Threads |-> IF u = t THEN NewLoc(r, 1) ELSE NewLoc(z, 2)]
            /\ ret = [u \in Threads |-> 0]
            /\ holders = {}
            /\ cmd_event = FALSE
            /\ tx_event = FALSE
            /\ rx_event = FALSE
            /\ irq = "none"
            /\ wip = FALSE
            /\ polling = FALSE
            /\ mem = [p \in Pages |-> Erased]
            /\ trace = <<>>
            /\ nops = 2
            /\ registered = TRUE
            /\ bdev = RegisteredDevice

NextTrim ==
    \/ \E t \in Threads :
          \/ ReadStep(t) \/ WriteEnableStep(t) \/ WritePageStep(t)
          \/ WriteBlockStep(t) \/ QspiEraseStep(t) \/ EraseStep(t) \/ Ioctl(t)
    \/ Interrupt
    \/ FlashReady
    \/ StatusMatch

SpecTrim == InitTrim /\ [][NextTrim]_vars

\* write_page(A, B) by a caller that holds the mutex, for every page-aligned
\* address A, every pattern B and every content of the flash (erased, or
\* one pattern in all pages); when it has returned, the other thread calls
\* read(A, page size).
InitWriteRead ==
    \E p \in Pages, d \in Data, m \in {Erased} \cup Data :
        OneCall(RequestD("write_page", p * N25Q128A_PAGE_SIZE, 1, d), m, {BootThread})

ReadBack(u) ==
    /\ pc[u] = "idle"
    /\ loc[u].kind = "none"
    /\ \E t \in Threads :
         /\ pc[t] = "idle"
         /\ loc[t].kind = "write_page"
         /\ loc' = [loc EXCEPT ![u] =
                       NewLoc(Request("read", loc[t].a0, N25Q128A_PAGE_SIZE), nops + 1)]
    /\ Goto(u, "rd_entry")
    /\ nops' = nops + 1
    /\ UNCHANGED <<ret, holders, evs, hw, trace, registered, bdev>>

NextWriteRead ==
    \/ \E t \in Threads :
          \/ WritePageStep(t) \/ WriteEnableStep(t) \/ WritePageReturn(t)
          \/ ReadBack(t) \/ ReadEntry(t) \/ ReadAcquire(t) \/ ReadCmd(t)
          \/ ReadRx(t) \/ ReadRxWait(t) \/ ReadRelease(t)
    \/ HAL_QSPI_TxCpltCallback
    \/ HAL_QSPI_RxCpltCallback
    \/ FlashReady
    \/ StatusMatch

SpecWriteRead == InitWriteRead /\ [][NextWriteRead]_vars

\* One thread has called with a request of Requests or EndRequests, the
\* other calls ioctl with every request code and argument, on the
\* initialised device.
InitIoctl ==
    \E r \in Requests \cup EndRequests, q \in 0 .. MaxRequest, a \in 0 .. MaxRequest :
        \E t \in Threads :
            /\ pc = [u \in Threads |-> IF u = t THEN EntryPc(r.kind) ELSE "io_entry"]
            /\ loc = [u \in Threads |->
                        IF u = t THEN NewLoc(r, 1) ELSE NewLoc(Request("ioctl", q, a), 2)]
            /\ ret = [u \in Threads |-> 0]
            /\ holders = {}
            /\ cmd_event = FALSE
            /\ tx_event = FALSE
            /\ rx_event = FALSE
            /\ irq = "none"
            /\ wip = FALSE
            /\ polling = FALSE
            /\ mem = [p \in Pages |-> Erased]
            /\ trace = <<>>
            /\ nops = 2
            /\ registered = TRUE
            /\ bdev = RegisteredDevice

SpecIoctl == InitIoctl /\ [][NextTrim]_vars

\* hal_error_to_status(h) for every status h of the range, known or not.
InitStatus ==
    \E h \in (0 - MaxStatus) .. MaxStatus :
        /\ pc = [t \in Threads |-> IF t = BootThread THEN "hs_entry" ELSE "idle"]
        /\ loc = [t \in Threads |->
                    IF t = BootThread
                    THEN [NoLoc EXCEPT !.kind = "status", !.id = 1, !.a0 = h]
                    ELSE NoLoc]
        /\ ret = [t \in Threads |-> 0]
        /\ holders = {}
        /\ cmd_event = FALSE
        /\ tx_event = FALSE
        /\ rx_event = FALSE
        /\ irq = "none"
        /\ wip = FALSE
        /\ polling = FALSE
        /\ mem = [p \in Pages |-> Erased]
        /\ trace = <<>>
        /\ nops = 1
        /\ registered = TRUE
        /\ bdev = RegisteredDevice

NextStatus == \E t \in Threads : HalErrorToStatus(t)

SpecStatus == InitStatus /\ [][NextStatus]_vars

(***************************************************************************)
(* Properties.                                                             *)
(***************************************************************************)
ProgramTxn == "EXT_QUAD_IN_FAST_PROG_CMD"
WelPoll == "READ_STATUS_REG_CMD/WREN"
WipPoll == "READ_STATUS_REG_CMD/WIP"

Shape(e) == <<e.txn, e.amode, e.addr, e.n>>

IsProgram(e) == e.txn = ProgramTxn
IsErase(e) == e.txn \in EraseInstructions
IsDonePoll(e) == e.txn = WipPoll /\ e.st = HAL_OK

\* The page-program and the erase instructions issued, in order, and the
\* number of pages or chunks whose last poll was started.
Programs == SelectSeq(trace, IsProgram)
Erases == SelectSeq(trace, IsErase)
DoneUnits == Len(SelectSeq(trace, IsDonePoll))

\* C1: at most one thread holds the device mutex, and every hardware
\* transaction of read, write_block, erase and init was issued by the thread
\* that held the mutex at that moment (never with the mutex free or held by
\* another thread).
C1_MutexGuardsHardware ==
    /\ Cardinality(holders) <= 1
    /\ \A i \in 1 .. Len(trace) : trace[i].lock = {trace[i].by}

\* A thread issues transactions while another waits for the mutex.
C1_Witness ==
    \E t, u \in Threads :
        /\ t # u
        /\ holders = {t}
        /\ pc[u] \in {"rd_acquire", "wb_acquire", "er_acquire"}
        /\ trace # <<>>
        /\ trace[Len(trace)].by = t
        /\ trace[Len(trace)].kind \in {"read", "read_block", "write_block", "erase"}

\* Transaction i of a write_block or erase call follows the phase that
\* precedes it in the triplet, of the same call, with nothing in between:
\* a write-enable starts the call or follows the completed poll of the
\* call's previous page or chunk.
C2_PhaseOrder(i) ==
    LET e == trace[i]
        first == \A j \in 1 .. (i - 1) : trace[j].id # e.id
        after(S) == /\ i > 1
                    /\ trace[i - 1].id = e.id
                    /\ trace[i - 1].st = HAL_OK
                    /\ trace[i - 1].txn \in S
    IN  CASE e.txn = "WRITE_ENABLE_CMD" -> first \/ after({WipPoll})
          [] e.txn = WelPoll -> after({"WRITE_ENABLE_CMD"})
          [] e.txn = ProgramTxn \/ e.txn \in EraseInstructions -> after({WelPoll})
          [] e.txn = "TRANSMIT" -> after({ProgramTxn})
          [] e.txn = WipPoll ->
                after(IF e.kind = "erase" THEN EraseInstructions ELSE {"TRANSMIT"})
          [] OTHER -> FALSE

\* The transactions issued so far: those of one call are next to each
\* other, and those of a write_block or erase call are in phase order.
C2_Contiguous ==
    /\ \A k \in 2 .. Len(trace) :
         \A i \in 1 .. (k - 1) :
            trace[i].id = trace[k].id => trace[k - 1].id = trace[k].id
    /\ \A i \in 1 .. Len(trace) :
         trace[i].kind \in {"write_block", "erase"} => C2_PhaseOrder(i)

\* C2: with concurrent callers the transactions of one call are never
\* between the first and the last transaction of another call, and the
\* transactions of a write_block or erase call are whole triplets
\* (write-enable handshake, program or erase, write-in-progress poll) one
\* after the other, cut short only by the failure that ends the call.
C2_NoInterleaving == []C2_Contiguous

\* A call of several triplets is followed in the trace by another
\* write_block or erase call.
C2_Witness ==
    \E i, j, k \in 1 .. Len(trace) :
        /\ i < j /\ j < k
        /\ trace[i].id = trace[j].id
        /\ trace[i].txn = "WRITE_ENABLE_CMD" /\ trace[j].txn = "WRITE_ENABLE_CMD"
        /\ trace[k].id # trace[i].id
        /\ trace[i].kind \in {"write_block", "erase"}
        /\ trace[k].kind \in {"write_block", "erase"}

\* C3 (as claimed): when a write or an erase has returned success, and
\* nothing was issued since, the flash is no longer busy with its program
\* or erase.
C3_ReadyWhenSuccessReturns ==
    \A t \in Threads :
        ( /\ pc[t] = "idle"
          /\ loc[t].kind \in {"write_block", "erase"}
          /\ ret[t] > 0
          /\ trace # <<>>
          /\ trace[Len(trace)].id = loc[t].id )
        => ~wip

\* C4: a thread that has returned from read, write_block, erase or
\* qspi_flash_init, with success or with an error, does not hold the mutex.
C4_ReleasedOnReturn ==
    \A t \in Threads : pc[t] = "idle" => t \notin holders

\* An erase returned an error after it had taken the mutex.
C4_Witness ==
    \E t \in Threads :
        /\ pc[t] = "idle"
        /\ loc[t].kind = "erase"
        /\ ret[t] < 0
        /\ \E i \in 1 .. Len(trace) : trace[i].id = loc[t].id

\* A step that takes a mutex holder forward: its own, or the interrupt.
HolderProgress == (\E t \in holders : Step(t)) \/ Interrupt

\* C5 (as claimed): an operation that holds the mutex is never stuck, also
\* after a phase failed: the holder or the interrupt it waits for can
\* always take a step, so the operation returns and the mutex is released.
C5_HolderNeverStuck == holders # {} => ENABLED HolderProgress

\* C6: qspi_write_page_unsafe with an address that is not a multiple of the
\* page size returns ERR_INVALID_ARGS and issues no hardware transaction;
\* the flash contents, the completion signals and the pending interrupt
\* stay as they were.
C6_MisalignedWritePage ==
    \A t \in Threads :
        (loc[t].kind = "write_page" /\ ~IS_ALIGNED(loc[t].a0, N25Q128A_PAGE_SIZE))
        => /\ trace = <<>>
           /\ mem = [p \in Pages |-> Erased]
           /\ ~cmd_event /\ ~tx_event /\ ~rx_event
           /\ irq = "none" /\ ~wip
           /\ pc[t] \in {"wp_entry", "wp_ret", "idle"}
           /\ pc[t] = "idle" => ret[t] = ERR_INVALID_ARGS

C6_Witness ==
    \E t \in Threads :
        /\ pc[t] = "idle"
        /\ loc[t].kind = "write_page"
        /\ ~IS_ALIGNED(loc[t].a0, N25Q128A_PAGE_SIZE)
        /\ ret[t] = ERR_INVALID_ARGS

\* The transactions of one page write at addr, as the claim lists them.
C7_Sequence(addr) ==
    << <<"WRITE_ENABLE_CMD", "NONE", 0, 0>>,
       <<WelPoll, "NONE", 0, 1>>,
       <<ProgramTxn, "4_LINES/24_BITS", addr, N25Q128A_PAGE_SIZE>>,
       <<"TRANSMIT", "NONE", 0, N25Q128A_PAGE_SIZE>>,
       <<WipPoll, "NONE", 0, 1>> >>

\* C7: with a page-aligned address and every hardware step succeeding,
\* qspi_write_page_unsafe issues write-enable, the write-enable-latch poll,
\* the quad page program with the 24-bit address, the transmit of one page
\* and the write-in-progress poll, in this order and nothing else, and
\* returns the page size.
C7_WritePageSequence ==
    \A t \in Threads :
        ( /\ loc[t].kind = "write_page"
          /\ IS_ALIGNED(loc[t].a0, N25Q128A_PAGE_SIZE)
          /\ loc[t].ok )
        => /\ Len(trace) <= Len(C7_Sequence(loc[t].a0))
           /\ \A i \in 1 .. Len(trace) : Shape(trace[i]) = C7_Sequence(loc[t].a0)[i]
           /\ pc[t] = "idle" => /\ Len(trace) = Len(C7_Sequence(loc[t].a0))
                                /\ ret[t] = N25Q128A_PAGE_SIZE

C7_Witness ==
    \E t \in Threads :
        /\ pc[t] = "idle"
        /\ loc[t].kind = "write_page"
        /\ loc[t].ok
        /\ loc[t].a0 > 0
        /\ ret[t] = N25Q128A_PAGE_SIZE

\* C8: write_block programs the trimmed range one page per block in
\* ascending block order; nothing is issued after the transaction that
\* failed, the pages completed before it stay programmed, and the call
\* returns the failed page's error (negative); with no failure it returns
\* the trimmed count times the page size.
C8_WriteBlock ==
    \A t \in Threads :
        loc[t].kind = "write_block" =>
            LET n == bio_trim_block_range(loc[t].a0, loc[t].n0) IN
            /\ Len(Programs) <= n
            /\ \A i \in 1 .. Len(Programs) :
                 Programs[i].addr = (loc[t].a0 + i - 1) * N25Q128A_PAGE_SIZE
            /\ \A i \in 1 .. Len(trace) : trace[i].st # HAL_OK => i = Len(trace)
            /\ \A i \in 1 .. DoneUnits : mem[loc[t].a0 + i - 1] = loc[t].buf[i]
            /\ pc[t] = "idle" =>
                 IF loc[t].ok
                 THEN ret[t] = n * N25Q128A_PAGE_SIZE /\ DoneUnits = n
                 ELSE /\ ret[t] < 0
                      /\ ret[t] = hal_error_to_status(trace[Len(trace)].st)

\* The second page failed after the first was programmed.
C8_Witness ==
    \E t \in Threads :
        /\ pc[t] = "idle"
        /\ loc[t].kind = "write_block"
        /\ ret[t] < 0
        /\ DoneUnits >= 1

\* The erase instructions the claim gives for the trimmed request.
C9_Expected(offset, len) ==
    IF offset = 0 /\ len = N25Q128A_FLASH_SIZE
    THEN << <<"BULK_ERASE_CMD", 0>> >>
    ELSE LET k == len \div N25Q128A_SECTOR_SIZE
             r == len % N25Q128A_SECTOR_SIZE
             s == (r + N25Q128A_SUBSECTOR_SIZE - 1) \div N25Q128A_SUBSECTOR_SIZE
         IN  [i \in 1 .. (k + s) |->
                IF i <= k
                THEN <<"SECTOR_ERASE_CMD", offset + (i - 1) * N25Q128A_SECTOR_SIZE>>
                ELSE <<"SUBSECTOR_ERASE_CMD",
                       offset + k * N25Q128A_SECTOR_SIZE
                              + (i - k - 1) * N25Q128A_SUBSECTOR_SIZE>>]

\* C9: with every hardware step succeeding, erase issues one bulk erase for
\* the whole device, and otherwise floor(len / sector) sector erases and
\* then the subsector erases of the remainder, each at offset plus the
\* bytes the earlier chunks consumed; erase(0, sector) is one sector erase
\* and erase(0, sector + subsector) a sector erase, then a subsector erase.
C9_EraseChunks ==
    \A t \in Threads :
        (loc[t].kind = "erase" /\ loc[t].ok) =>
            LET exp == C9_Expected(loc[t].a0, bio_trim_range(loc[t].a0, loc[t].n0))
                got == [i \in 1 .. Len(Erases) |-> <<Erases[i].txn, Erases[i].addr>>]
            IN  /\ Len(got) <= Len(exp)
                /\ \A i \in 1 .. Len(got) : got[i] = exp[i]
                /\ pc[t] = "idle" =>
                     /\ got = exp
                     /\ (loc[t].a0 = 0 /\ loc[t].n0 = N25Q128A_SECTOR_SIZE)
                          => got = << <<"SECTOR_ERASE_CMD", 0>> >>
                     /\ (loc[t].a0 = 0 /\ loc[t].n0 = N25Q128A_SECTOR_SIZE
                                                      + N25Q128A_SUBSECTOR_SIZE)
                          => got = << <<"SECTOR_ERASE_CMD", 0>>,
                                      <<"SUBSECTOR_ERASE_CMD", N25Q128A_SECTOR_SIZE>> >>

\* erase(0, sector) has returned with every step succeeding.
C9_Witness ==
    \E t \in Threads :
        /\ pc[t] = "idle"
        /\ loc[t].kind = "erase"
        /\ loc[t].ok
        /\ loc[t].a0 = 0
        /\ loc[t].n0 = N25Q128A_SECTOR_SIZE
        /\ ret[t] = N25Q128A_SECTOR_SIZE

\* C10: every erase and every page-program instruction comes right after a
\* write-enable instruction and a successful write-enable-latch poll of the
\* same call, all three issued by the mutex holder; an erase instruction has
\* no address phase for bulk and a single-line 24-bit one for sector and
\* subsector, and the next transaction of its chunk is the
\* write-in-progress poll, which nothing but the erase instruction precedes.
C10_Handshake ==
    \A i \in 1 .. Len(trace) :
        LET e == trace[i] IN
        /\ (IsProgram(e) \/ IsErase(e)) =>
              /\ i >= 3
              /\ trace[i - 2].txn = "WRITE_ENABLE_CMD"
              /\ trace[i - 1].txn = WelPoll
              /\ \A j \in {i - 2, i - 1} :
                    /\ trace[j].st = HAL_OK
                    /\ trace[j].id = e.id
                    /\ trace[j].lock = {e.by}
              /\ e.lock = {e.by}
        /\ IsErase(e) =>
              /\ e.amode = (IF e.txn = "BULK_ERASE_CMD" THEN "NONE"
                            ELSE "1_LINE/24_BITS")
              /\ (i < Len(trace) /\ trace[i + 1].id = e.id)
                    => (e.st = HAL_OK /\ trace[i + 1].txn = WipPoll)
        /\ (e.txn = WipPoll /\ e.kind = "erase") =>
              (i > 1 /\ IsErase(trace[i - 1]) /\ trace[i - 1].id = e.id)

\* A page program and an erase chunk, each complete, are in the trace.
C10_Witness ==
    \E i, j \in 1 .. Len(trace) :
        /\ IsProgram(trace[i]) /\ trace[i].st = HAL_OK
        /\ IsErase(trace[j]) /\ trace[j].st = HAL_OK
        /\ j < Len(trace) /\ trace[j + 1].txn = WipPoll

\* The bytes the erase instructions of s erase, added up.
RECURSIVE ErasedBytes(_)
ErasedBytes(s) ==
    IF s = <<>> THEN 0
    ELSE NumErasedBytes(Head(s).txn) + ErasedBytes(Tail(s))

\* What qspi_erase returns for a chunk whose transaction e failed.
ChunkError(e) == IF IsErase(e) THEN ERR_GENERIC ELSE hal_error_to_status(e.st)

\* C11: erase issues nothing after the transaction that failed, so no later
\* chunk is touched, and returns the error of the chunk that failed (a
\* negative status, not a byte count); when no chunk fails it returns the
\* bytes the chunks erased, which is the flash size for the whole device.
C11_EraseResult ==
    \A t \in Threads :
        loc[t].kind = "erase" =>
            /\ \A i \in 1 .. Len(trace) : trace[i].st # HAL_OK => i = Len(trace)
            /\ pc[t] = "idle" =>
                 IF loc[t].ok
                 THEN /\ ret[t] = ErasedBytes(Erases)
                      /\ ret[t] >= 0
                      /\ (loc[t].a0 = 0 /\ loc[t].n0 >= N25Q128A_FLASH_SIZE)
                            => ret[t] = N25Q128A_FLASH_SIZE
                 ELSE /\ ret[t] < 0
                      /\ ret[t] = ChunkError(trace[Len(trace)])

\* A chunk was erased and a later chunk failed.
C11_Witness ==
    \E t \in Threads :
        /\ pc[t] = "idle"
        /\ loc[t].kind = "erase"
        /\ ret[t] < 0
        /\ Len(Erases) >= 1
        /\ Erases[1].st = HAL_OK
        /\ \E i \in 1 .. Len(trace) :
             /\ trace[i].txn = WipPoll /\ trace[i].st = HAL_OK
             /\ i < Len(trace)

\* The request of the call is one qspi_erase rejects.
C12_Rejected(l) ==
    \/ (l.instr = "BULK_ERASE_CMD" /\ l.a0 # 0)
    \/ l.instr \notin EraseInstructions

\* C12: qspi_erase with the bulk instruction and a nonzero address, or with
\* an instruction that is not an erase instruction, returns
\* ERR_INVALID_ARGS and issues no hardware transaction: no write-enable
\* handshake, no erase command, no poll; flash, signals and interrupt stay
\* as they were.
C12_InvalidErase ==
    \A t \in Threads :
        (loc[t].kind = "qspi_erase" /\ C12_Rejected(loc[t])) =>
            /\ trace = <<>>
            /\ mem = [p \in Pages |-> 1]
            /\ ~cmd_event /\ ~tx_event /\ ~rx_event
            /\ irq = "none" /\ ~wip
            /\ pc[t] \in {"qe_entry", "qe_ret", "idle"}
            /\ pc[t] = "idle" => ret[t] = ERR_INVALID_ARGS

\* A bulk erase with a nonzero address has returned.
C12_Witness ==
    \E t \in Threads :
        /\ pc[t] = "idle"
        /\ loc[t].kind = "qspi_erase"
        /\ loc[t].instr = "BULK_ERASE_CMD"
        /\ loc[t].a0 # 0
        /\ ret[t] = ERR_INVALID_ARGS

\* The byte range a read or read_block call asks for, and what is left of
\* it inside the device.
C13_Offset(l) == IF l.kind = "read" THEN l.a0 ELSE l.a0 * N25Q128A_PAGE_SIZE

C13_Length(l) ==
    IF l.kind = "read" THEN bio_trim_range(l.a0, l.n0)
    ELSE bio_trim_block_range(l.a0, l.n0) * N25Q128A_PAGE_SIZE

\* C13: a read whose trimmed length is not 0 issues one quad read command
\* (4-line 24-bit address = offset, 4-line data phase, the fixed dummy
\* cycles, data size = trimmed length) and then one receive of that size,
\* and nothing else whatever the size; on success it returns the trimmed
\* length.  read_block(block, count) does what read(block * page size,
\* count * page size) does on the trimmed block range.
C13_SingleQuadRead ==
    \A t \in Threads :
        loc[t].kind \in {"read", "read_block"} =>
            LET off == C13_Offset(loc[t])
                len == C13_Length(loc[t])
            IN  /\ Len(trace) <= 2
                /\ len = 0 => trace = <<>>
                /\ Len(trace) >= 1 =>
                     /\ Shape(trace[1]) = <<"QUAD_INOUT_FAST_READ_CMD",
                                            "4_LINES/24_BITS", off, len>>
                     /\ trace[1].dmode = "4_LINES"
                     /\ trace[1].dummy = N25Q128A_DUMMY_CYCLES_READ_QUAD
                /\ Len(trace) = 2 =>
                     /\ trace[1].st = HAL_OK
                     /\ Shape(trace[2]) = <<"RECEIVE", "NONE", 0, len>>
                /\ (pc[t] = "idle" /\ loc[t].ok /\ len > 0) =>
                     /\ Len(trace) = 2
                     /\ ret[t] = len

\* A read of several pages, and a read_block of several blocks, returned
\* their whole length.
C13_Witness ==
    \E t \in Threads :
        /\ pc[t] = "idle"
        /\ loc[t].kind = "read_block"
        /\ loc[t].ok
        /\ ret[t] > 2 * N25Q128A_PAGE_SIZE
        /\ ret[t] < loc[t].n0 * N25Q128A_PAGE_SIZE
        /\ Len(trace) = 2

\* What bio_trim_range or bio_trim_block_range leaves of a call's request.
Trimmed(l) ==
    IF l.kind \in {"read", "erase"} THEN bio_trim_range(l.a0, l.n0)
    ELSE bio_trim_block_range(l.a0, l.n0)

\* C14: read, read_block, write_block and erase clamp the request before
\* any hardware access: every transaction with an address lies inside the
\* device, and a read command's range ends inside it.  A call of which
\* nothing is left issues no transaction, never waits for and never holds
\* the mutex, and returns 0.
C14_TrimmedFirst ==
    /\ \A i \in 1 .. Len(trace) :
         trace[i].amode # "NONE" =>
            /\ trace[i].addr < N25Q128A_FLASH_SIZE
            /\ trace[i].txn = "QUAD_INOUT_FAST_READ_CMD"
                  => trace[i].addr + trace[i].n <= N25Q128A_FLASH_SIZE
    /\ \A t \in Threads :
         ( /\ loc[t].kind \in {"read", "read_block", "write_block", "erase"}
           /\ Trimmed(loc[t]) = 0 )
         => /\ pc[t] \in {"rd_entry", "rb_entry", "wb_entry", "er_entry", "idle"}
            /\ t \notin holders
            /\ \A i \in 1 .. Len(trace) : trace[i].id # loc[t].id
            /\ pc[t] = "idle" => ret[t] = 0

\* A call of which nothing is left has returned 0 while the other thread
\* holds the mutex in the middle of its transactions.
C14_Witness ==
    \E t, u \in Threads :
        /\ t # u
        /\ pc[t] = "idle"
        /\ loc[t].kind \in {"write_block", "erase"}
        /\ Trimmed(loc[t]) = 0
        /\ loc[t].n0 > 0
        /\ ret[t] = 0
        /\ holders = {u}
        /\ trace # <<>>
        /\ trace[Len(trace)].by = u

\* The write_page call and the read that followed it have both returned,
\* all hardware steps of both having succeeded, and the read asked for the
\* page that was written.
C15_BothDone(t, u) ==
    /\ pc[t] = "idle" /\ loc[t].kind = "write_page" /\ loc[t].ok
    /\ pc[u] = "idle" /\ loc[u].kind = "read" /\ loc[u].ok
    /\ loc[u].a0 = loc[t].a0

\* The read returned the page size and delivered the pattern written.
C15_Delivered(t, u) ==
    /\ ret[t] = N25Q128A_PAGE_SIZE
    /\ ret[u] = N25Q128A_PAGE_SIZE
    /\ loc[u].buf = [i \in 1 .. N25Q128A_PAGE_SIZE |-> loc[t].buf[1]]

\* C15 (as claimed): write_page(A, B) followed by read(A, page size), all
\* hardware steps succeeding and nothing else touching the page, returns
\* the page size and delivers exactly B, whatever the page held before.
C15_RoundTrip ==
    \A t, u \in Threads : C15_BothDone(t, u) => C15_Delivered(t, u)

\* The flash was erased when write_page was called: the pages it did not
\* write, which held what the written page held, are erased.
C15_WasErased(t) ==
    \A p \in Pages \ {loc[t].a0 \div N25Q128A_PAGE_SIZE} : mem[p] = Erased

\* C15 (amended): write_page(A, B) to a page that is erased, followed by
\* read(A, page size), all hardware steps succeeding and nothing else
\* touching the page, returns the page size and delivers exactly B.
C15_RoundTripErased ==
    \A t, u \in Threads :
        (C15_BothDone(t, u) /\ C15_WasErased(t)) => C15_Delivered(t, u)

\* A page other than page 0 of the erased flash was written and read back.
C15_Witness ==
    \E t, u \in Threads :
        /\ C15_BothDone(t, u)
        /\ C15_WasErased(t)
        /\ loc[t].a0 > 0
        /\ C15_Delivered(t, u)

\* The calls of the block device that drive the hardware.
DeviceCalls == {"read", "read_block", "write_block", "erase"}

\* The transactions issued so far: none follows a failed one of its call,
\* and none comes a second time within a page or chunk.
C16_EndedByFailure ==
    \A i \in 1 .. Len(trace) :
        trace[i].kind \in DeviceCalls =>
            \A j \in (i + 1) .. Len(trace) :
                trace[j].id = trace[i].id =>
                    /\ trace[i].st = HAL_OK
                    /\ trace[j].txn = trace[i].txn =>
                         \E k \in i .. (j - 1) :
                            /\ trace[k].id = trace[i].id
                            /\ trace[k].txn = WipPoll
                            /\ trace[k].st = HAL_OK

\* C16: in read, in each page write and in each erase chunk a failed phase
\* ends the sequence: the call issues no transaction after one that returned
\* a status other than HAL_OK, and it issues no transaction a second time:
\* the same transaction comes again only for the next page or chunk, after
\* the write-in-progress poll of the one before was started.
C16_AbortNoRetry == []C16_EndedByFailure

\* A page-program command failed after its handshake, and an erase command
\* failed after its handshake, and both calls have returned.
C16_Witness ==
    \E i, j \in 1 .. Len(trace) :
        /\ IsProgram(trace[i]) /\ trace[i].st # HAL_OK
        /\ IsErase(trace[j]) /\ trace[j].st # HAL_OK
        /\ pc[trace[i].by] = "idle"
        /\ pc[trace[j].by] = "idle"

\* C17 (as claimed): an erase that failed returns the translation of the
\* hardware status that made it fail, whatever the phase that failed.
C17_TranslatedStatus ==
    \A t \in Threads :
        (pc[t] = "idle" /\ loc[t].kind = "erase" /\ ~loc[t].ok)
        => ret[t] = hal_error_to_status(trace[Len(trace)].st)

\* The kernel statuses hal_error_to_status may return.
C18_Outcomes == {NO_ERROR, ERR_GENERIC, ERR_BUSY, ERR_TIMED_OUT}

\* C18: hal_error_to_status returns for every status; HAL_OK gives NO_ERROR,
\* HAL_ERROR gives ERR_GENERIC, HAL_BUSY gives ERR_BUSY, HAL_TIMEOUT gives
\* ERR_TIMED_OUT and every other value gives ERR_GENERIC; NO_ERROR is
\* returned for HAL_OK only.
C18_StatusTranslation ==
    \A t \in Threads :
        loc[t].kind = "status" =>
            /\ pc[t] = "hs_entry" => ENABLED HalErrorToStatus(t)
            /\ pc[t] = "idle" =>
                 LET h == loc[t].a0 IN
                 /\ ret[t] \in C18_Outcomes
                 /\ h = HAL_OK => ret[t] = NO_ERROR
                 /\ h = HAL_ERROR => ret[t] = ERR_GENERIC
                 /\ h = HAL_BUSY => ret[t] = ERR_BUSY
                 /\ h = HAL_TIMEOUT => ret[t] = ERR_TIMED_OUT
                 /\ h \notin HalOutcomes => ret[t] = ERR_GENERIC
                 /\ ret[t] = NO_ERROR => h = HAL_OK

\* A status that is not a HAL_StatusTypeDef value was translated.
C18_Witness ==
    \E t \in Threads :
        /\ pc[t] = "idle"
        /\ loc[t].kind = "status"
        /\ loc[t].a0 \notin HalOutcomes
        /\ ret[t] = ERR_GENERIC

\* Thread t leaves position w in this step.
C19_Leaves(t, w) == pc[t] = w /\ pc'[t] # w

\* Thread t comes to position p in this step.
C19_Enters(t, p) == pc[t] # p /\ pc'[t] = p

\* What C19 asks of one step, for thread t.
C19_Step(t) ==
    \* A wait ends only on its signal, and takes the signal with it.
    /\ C19_Leaves(t, "rd_rx_wait") => (rx_event /\ ~rx_event')
    /\ C19_Leaves(t, "wp_tx_wait") => (tx_event /\ ~tx_event')
    /\ (\E w \in {"qe_cmd_wait", "rm_en_wait", "rm_rst_wait"} : C19_Leaves(t, w))
          => (cmd_event /\ ~cmd_event')
    \* The signal it waits for is not there when the transaction starts, so
    \* the signal that ends the wait fired after the start.
    /\ C19_Enters(t, "rd_rx_wait") => ~rx_event'
    /\ C19_Enters(t, "wp_tx_wait") => ~tx_event'
    /\ C19_Enters(t, "qe_cmd_wait") => ~cmd_event'
    \* A read gets to its successful return, a page write to its
    \* write-in-progress poll and an erase chunk to its poll only out of
    \* the wait.
    /\ (C19_Enters(t, "rd_release") /\ loc'[t].rc > 0) => pc[t] = "rd_rx_wait"
    /\ C19_Enters(t, "wp_poll") => pc[t] = "wp_tx_wait"
    /\ C19_Enters(t, "qe_poll") => pc[t] = "qe_cmd_wait"

\* C19: qspi_rx, qspi_tx and qspi_cmd hold the caller until the completion
\* signal of the transaction they started has fired: the signal is
\* unsignaled when the transaction starts, the wait ends only with the
\* signal set and unsignals it (so one signal ends one wait), and the
\* successful return of read, the write-in-progress poll of a page write
\* and the poll of an erase chunk are reached only through the wait.
C19_WaitForSignal == [][\A t \in Threads : C19_Step(t)]_vars

\* A read has returned its length after an erase chunk went through its
\* wait to its poll.
C19_Witness ==
    \E t \in Threads :
        /\ pc[t] = "idle"
        /\ loc[t].kind \in {"read", "read_block"}
        /\ ret[t] > 0
        /\ \E i \in 1 .. Len(trace) :
             trace[i].txn = WipPoll /\ trace[i].kind = "erase"

\* What C20 asks of the step that handles completion interrupt i, whose
\* callback signals ev (now) / evn (after the step): the signal is set and
\* nothing but the signal and the pending interrupt changes.
C20_Handled(i, evn, others) ==
    (irq = i /\ irq' # i) =>
        /\ evn = TRUE
        /\ irq' = "none"
        /\ UNCHANGED others
        /\ UNCHANGED <<pc, loc, ret, holders, wip, mem, polling, trace, nops,
                       registered, bdev>>

\* C20: the step of each completion callback sets its own signal and
\* leaves the other two signals, the mutex owner and all state of the
\* protocol (positions, locals and counters of the calls, return values,
\* flash and controller state) unchanged; and a signal is set by no other
\* step than its callback's.
C20_CallbacksOnlySignal ==
    [][ /\ C20_Handled("cmd", cmd_event', <<tx_event, rx_event>>)
        /\ C20_Handled("rx", rx_event', <<cmd_event, tx_event>>)
        /\ C20_Handled("tx", tx_event', <<cmd_event, rx_event>>)
        /\ (~cmd_event /\ cmd_event') => irq = "cmd"
        /\ (~rx_event /\ rx_event') => irq = "rx"
        /\ (~tx_event /\ tx_event') => irq = "tx" ]_vars

\* All three callbacks have run: the command callback during the reset of
\* qspi_flash_init, the transmit callback for a page whose poll was
\* started, and the receive callback just now.
C20_Witness ==
    /\ registered
    /\ rx_event
    /\ \E i \in 1 .. Len(trace) :
         trace[i].txn = WipPoll /\ trace[i].kind = "write_block"

\* The positions where a thread waits in event_wait, the signal each waits
\* for, and the positions where a thread waits in mutex_acquire.
WaitPcs == {"rd_rx_wait", "wp_tx_wait", "qe_cmd_wait", "rm_en_wait", "rm_rst_wait"}

Signaled(w) ==
    CASE w = "rd_rx_wait" -> rx_event
      [] w = "wp_tx_wait" -> tx_event
      [] OTHER            -> cmd_event

AcquirePcs == {"rd_acquire", "wb_acquire", "er_acquire"}

\* What the function that waited hands to its caller: retcode or result
\* (rc) in read and the init path, the return value (sub) in the engines.
C21_Handed(t) ==
    IF pc'[t] \in {"rd_release", "in_release"} THEN loc'[t].rc ELSE loc'[t].sub

\* What C21 asks of one step, for a thread t that waits at w.
C21_Step(t, w) ==
    /\ (pc[t] = w /\ ~Signaled(w)) =>
          /\ pc'[t] = w
          /\ ret'[t] = ret[t]
          /\ holders = {t}
          /\ holders' = {t}
          /\ \A u \in Threads \ {t} :
                /\ pc[u] \in AcquirePcs => pc'[u] = pc[u]
                /\ pc'[u] \in WaitPcs \cup {"rd_release", "wb_release", "er_release"}
                      => pc'[u] = pc[u]
    /\ (pc[t] = w /\ pc'[t] # w /\ C21_Handed(t) = ERR_TIMED_OUT)
          => (loc[t].st = HAL_TIMEOUT /\ w # "qe_cmd_wait")

\* C21: a thread that waits for a completion signal that is not there stays
\* in the wait over every step, does not return and keeps the mutex, and a
\* thread that waits for the mutex meanwhile stays where it is (no other
\* thread gets to a hardware wait or to its release); so without the
\* completion interrupt the wait never ends.  The step that ends a wait
\* hands on ERR_TIMED_OUT only as the translation of HAL_TIMEOUT returned by
\* the start, never for the time waited.
C21_WaitHasNoTimeout ==
    [][\A t \in Threads : \A w \in WaitPcs : C21_Step(t, w)]_vars

\* A started transaction's signal has not come, and the other thread waits
\* for the mutex.
C21_Witness ==
    \E t, u \in Threads :
        /\ t # u
        /\ pc[t] \in WaitPcs
        /\ ~Signaled(pc[t])
        /\ loc[t].st = HAL_OK
        /\ pc[u] \in AcquirePcs
        /\ holders = {t}

\* The positions inside qspi_write_page_unsafe and the handshake it calls.
WritePagePcs ==
    {"wp_entry", "we_cmd", "we_poll", "wp_cmd", "wp_tx", "wp_tx_wait", "wp_poll"}

\* C22: every page-program instruction issued carries a page-aligned
\* address; the address write_block gives to the page write is the block
\* index times the page size, so the page write never answers
\* ERR_INVALID_ARGS and write_block never returns it.
C22_AlignedPrograms ==
    /\ \A i \in 1 .. Len(trace) :
         IsProgram(trace[i]) => IS_ALIGNED(trace[i].addr, N25Q128A_PAGE_SIZE)
    /\ \A t \in Threads :
         loc[t].kind = "write_block" =>
            /\ pc[t] \in WritePagePcs =>
                  /\ loc[t].addr = loc[t].block * N25Q128A_PAGE_SIZE
                  /\ loc[t].block = loc[t].a0 + loc[t].bp
                  /\ IS_ALIGNED(loc[t].addr, N25Q128A_PAGE_SIZE)
            /\ loc[t].sub # ERR_INVALID_ARGS
            /\ loc[t].rc # ERR_INVALID_ARGS
            /\ ret[t] # ERR_INVALID_ARGS

\* The page of an odd block index, the second of its call, was programmed.
C22_Witness ==
    \E t \in Threads :
        /\ loc[t].kind = "write_block"
        /\ Len(Programs) >= 2
        /\ Programs[2].st = HAL_OK
        /\ (Programs[2].addr \div N25Q128A_PAGE_SIZE) % 2 = 1
        /\ pc[t] = "idle"
        /\ ret[t] > 0

\* C23 (as claimed): the registered block device has block size = page
\* size, block count = flash size / page size, one erase geometry with erase
\* unit size = subsector size in bytes, start offset 0 and total size =
\* flash size, erase fill byte 0xFF, and read, read_block, write_block,
\* erase and ioctl wired to the driver's entry points.
C23_RegisteredGeometry ==
    registered =>
        /\ bdev.block_size = N25Q128A_PAGE_SIZE
        /\ bdev.block_count = N25Q128A_FLASH_SIZE \div N25Q128A_PAGE_SIZE
        /\ bdev.geometry_count = 1
        /\ bdev.geometry.erase_size = N25Q128A_SUBSECTOR_SIZE
        /\ bdev.geometry.start = 0
        /\ bdev.geometry.size = N25Q128A_FLASH_SIZE
        /\ bdev.erase_byte = 255
        /\ bdev.read = "spiflash_bdev_read"
        /\ bdev.read_block = "spiflash_bdev_read_block"
        /\ bdev.write_block = "spiflash_bdev_write_block"
        /\ bdev.erase = "spiflash_bdev_erase"
        /\ bdev.ioctl = "spiflash_ioctl"

\* What C24 asks of one step, for a thread t that has called ioctl.
C24_Step(t) ==
    pc[t] = "io_entry" =>
        /\ ENABLED Ioctl(t)
        /\ pc'[t] # "io_entry" =>
              /\ pc'[t] = "idle"
              /\ ret'[t] = ERR_NOT_IMPLEMENTED
              /\ UNCHANGED <<holders, cmd_event, tx_event, rx_event, irq, wip, mem,
                             polling, trace, nops, registered, bdev>>
              /\ \A u \in Threads \ {t} :
                    pc'[u] = pc[u] /\ loc'[u] = loc[u] /\ ret'[u] = ret[u]

\* C24: ioctl can return in every state of the device, whoever holds the
\* mutex; it returns ERR_NOT_IMPLEMENTED for every request code and
\* argument, and its step issues no hardware transaction and leaves the
\* mutex, the signals, the controller, the flash and the other thread's
\* call as they were.
C24_IoctlNotImplemented == [][\A t \in Threads : C24_Step(t)]_vars

\* ioctl with a nonzero request code and argument has returned while the
\* other thread holds the mutex and waits for a completion signal.
C24_Witness ==
    \E t, u \in Threads :
        /\ t # u
        /\ pc[t] = "idle"
        /\ loc[t].kind = "ioctl"
        /\ loc[t].a0 > 0
        /\ loc[t].n0 > 0
        /\ ret[t] = ERR_NOT_IMPLEMENTED
        /\ holders = {u}
        /\ pc[u] \in WaitPcs

\* The pages that hold a byte of the trimmed range of erase call l.
RangePages(l) ==
    {p \in Pages :
        \E b \in l.a0 .. (l.a0 + bio_trim_range(l.a0, l.n0) - 1) :
            b \div N25Q128A_PAGE_SIZE = p}

\* C25 (as claimed): when erase(offset, length) has returned success, every
\* byte of the trimmed range is erased, for every offset and length, aligned
\* to sectors or subsectors or not.
C25_RangeErased ==
    \A t \in Threads :
        (pc[t] = "idle" /\ loc[t].kind = "erase" /\ ret[t] >= 0)
            => \A p \in RangePages(loc[t]) : mem[p] = Erased

\* The bytes an erase instruction at address a clears.
ErasedRange(instr, a) ==
    {b \in 0 .. (N25Q128A_FLASH_SIZE - 1) :
        (b \div N25Q128A_PAGE_SIZE) \in ErasedPages(instr, a)}

\* C26 (as claimed): for a subsector-aligned offset and a length that is a
\* multiple of the subsector size, no erase instruction issued covers a byte
\* outside [offset, offset + length), a sector erase is issued only at a
\* sector-aligned address, and the pages outside the range hold what they
\* held before the call.
C26_NothingOutsideRange ==
    \A t \in Threads :
        ( /\ loc[t].kind = "erase"
          /\ IS_ALIGNED(loc[t].a0, N25Q128A_SUBSECTOR_SIZE)
          /\ IS_ALIGNED(loc[t].n0, N25Q128A_SUBSECTOR_SIZE) )
        => /\ \A i \in 1 .. Len(Erases) :
                /\ ErasedRange(Erases[i].txn, Erases[i].addr)
                      \subseteq loc[t].a0 .. (loc[t].a0 + loc[t].n0 - 1)
                /\ Erases[i].txn = "SECTOR_ERASE_CMD"
                      => IS_ALIGNED(Erases[i].addr, N25Q128A_SECTOR_SIZE)
           /\ \A p \in Pages \ RangePages(loc[t]) : mem[p] = 1

\* The chunks C27 allows for a trimmed length, and the length rounded up to
\* a multiple of the subsector size.
C27_MaxChunks(len) ==
    (len \div N25Q128A_SECTOR_SIZE)
    + (((len % N25Q128A_SECTOR_SIZE) + N25Q128A_SUBSECTOR_SIZE - 1)
          \div N25Q128A_SUBSECTOR_SIZE)

C27_RoundUp(len) ==
    ((len + N25Q128A_SUBSECTOR_SIZE - 1) \div N25Q128A_SUBSECTOR_SIZE)
        * N25Q128A_SUBSECTOR_SIZE

\* The counter of erased bytes is the sum of the chunks issued so far, each
\* a sector or subsector (or the chip); no more chunks are issued than the
\* bound, and a successful erase returns the rounded length.
C27_Bounded ==
    \A t \in Threads :
        loc[t].kind = "erase" =>
            LET len == bio_trim_range(loc[t].a0, loc[t].n0) IN
            /\ Len(Erases) <= C27_MaxChunks(len)
            /\ (loc[t].ok /\ pc[t] \in {"er_loop", "er_release"}) =>
                  /\ loc[t].rc = ErasedBytes(Erases)
                  /\ loc[t].rc <= C27_RoundUp(len)
                  /\ Len(Erases) > 0 => loc[t].rc > 0
            /\ (loc[t].ok /\ pc[t] = "idle") =>
                  /\ ret[t] = C27_RoundUp(len)
                  /\ ret[t] >= len
                  /\ ret[t] < len + N25Q128A_SUBSECTOR_SIZE
                  /\ (ret[t] = len) <=> IS_ALIGNED(len, N25Q128A_SUBSECTOR_SIZE)

\* An erase call is over: it has returned, or one of its hardware steps
\* failed.
C27_Over ==
    \A t \in Threads :
        loc[t].kind = "erase" => (pc[t] = "idle" \/ ~loc[t].ok)

\* C27: erase returns when every chunk completes: the erased-byte counter
\* grows by the size of each successful chunk, at most floor(length /
\* sector) + ceil((length mod sector) / subsector) chunks are issued, and
\* the value returned on success is the trimmed length rounded up to a
\* multiple of the subsector size (at least the length, less than the
\* length plus a subsector, equal to it exactly for a multiple).
C27_EraseTerminates == []C27_Bounded /\ <>C27_Over

\* An erase of a length that is no multiple of the subsector size returned
\* more than the length, after a sector and a subsector chunk.
C27_Witness ==
    \E t \in Threads :
        /\ pc[t] = "idle"
        /\ loc[t].kind = "erase"
        /\ loc[t].ok
        /\ Len(Erases) >= 2
        /\ ~IS_ALIGNED(bio_trim_range(loc[t].a0, loc[t].n0), N25Q128A_SUBSECTOR_SIZE)
        /\ ret[t] > bio_trim_range(loc[t].a0, loc[t].n0)

\* C28 (as claimed): when qspi_flash_init has returned, the block device is
\* registered if and only if every setup step succeeded, the value returned
\* is not NO_ERROR if a step failed, and the mutex is released.
C28_InitResult ==
    \A t \in Threads :
        (pc[t] = "idle" /\ loc[t].kind = "init") =>
            /\ registered <=> loc[t].ok
            /\ ~loc[t].ok => ret[t] # NO_ERROR
            /\ t \notin holders

\* The completion interrupt that ends the wait at w.
IrqOf(w) ==
    CASE w = "rd_rx_wait" -> "rx"
      [] w = "wp_tx_wait" -> "tx"
      [] OTHER            -> "cmd"

\* The signals that are set, as the set of the interrupts that set them.
SignalsSet ==
    {i \in {"cmd", "tx", "rx"} :
        \/ (i = "cmd" /\ cmd_event)
        \/ (i = "tx" /\ tx_event)
        \/ (i = "rx" /\ rx_event)}

\* C29: no completion signal and no completion interrupt is left over.
\* With the mutex free, and whenever no thread is in a wait, all three
\* signals are unsignaled and no completion interrupt is pending.  While a
\* thread waits, the transaction it started is the last one issued, only
\* its own signal can be set and only its own completion interrupt can be
\* pending, never both: the signal that ends the wait is the completion of
\* the transaction the wait belongs to.
C29_NoStaleSignal ==
    /\ (holders = {} \/ \A t \in Threads : pc[t] \notin WaitPcs)
          => (SignalsSet = {} /\ irq = "none")
    /\ \A t \in Threads :
         pc[t] \in WaitPcs =>
            /\ holders = {t}
            /\ SignalsSet \subseteq {IrqOf(pc[t])}
            /\ irq \in {"none", IrqOf(pc[t])}
            /\ ~(Signaled(pc[t]) /\ irq # "none")
            /\ trace # <<>>
            /\ trace[Len(trace)].by = t
            /\ trace[Len(trace)].id = loc[t].id
            /\ trace[Len(trace)].st = loc[t].st

\* A thread's wait has its signal, after an interrupt-driven transaction of
\* an earlier call of the other thread failed to start and that call
\* returned.
C29_Witness ==
    \E t, u \in Threads :
        /\ t # u
        /\ pc[t] \in WaitPcs
        /\ Signaled(pc[t])
        /\ loc[t].st = HAL_OK
        /\ pc[u] = "idle"
        /\ ret[u] < 0
        /\ \E i \in 1 .. Len(trace) :
             /\ trace[i].by = u
             /\ trace[i].st # HAL_OK
             /\ trace[i].txn \in {"RECEIVE", "TRANSMIT"} \cup EraseInstructions

====
